---- MODULE Spec2Model ----
(***************************************************************************)
(* Model of the Docker executor of gitlab-ci-multi-runner                  *)
(* (executors/docker/executor_docker.go) and of the part of the PowerShell *)
(* shell it consumes (shells/powershell.go).                               *)
(*                                                                         *)
(* Strings are sequences of tokens: a token is a word ("builds", "proj"),  *)
(* or one of the separators "/", ":", "@", "-", "__".  Splitting, joining  *)
(* and replacing are then computed on the token sequence the way the Go    *)
(* code computes them on bytes.  The empty string is <<>>.                 *)
(*                                                                         *)
(* Container IDs are positive naturals issued by the daemon; 0 stands for  *)
(* the empty ID "".                                                        *)
(***************************************************************************)
EXTENDS Integers, Sequences, FiniteSets, TLC

(***************************************************************************)
(* Bounds of the model.                                                    *)
(***************************************************************************)
\* number of createContainer calls (build stages) of one run
MaxStages == 1
\* number of Cleanup calls of one run
MaxCleanups == 2
\* number of operations of one run in which the environment deviates
MaxFaults == 2
\* number of SIGKILLs the history counts
MaxKills == 2

(***************************************************************************)
(* String helpers (strings, path and path/filepath of the Go library).     *)
(***************************************************************************)
Contains(s, t) == \E i \in 1..Len(s) : s[i] = t

IndexOf(s, t) ==
    IF Contains(s, t)
    THEN CHOOSE i \in 1..Len(s) : s[i] = t /\ \A j \in 1..(i - 1) : s[j] # t
    ELSE 0

LastIndexOf(s, t) ==
    IF Contains(s, t)
    THEN CHOOSE i \in 1..Len(s) : s[i] = t /\ \A j \in (i + 1)..Len(s) : s[j] # t
    ELSE 0

\* strings.SplitN(s, ":", 2)
SplitN2(s) ==
    LET i == IndexOf(s, ":")
    IN  IF i = 0 THEN <<s>> ELSE <<SubSeq(s, 1, i - 1), SubSeq(s, i + 1, Len(s))>>

RECURSIVE Split(_)
\* strings.Split(s, ":")
Split(s) ==
    LET i == IndexOf(s, ":")
    IN  IF i = 0 THEN <<s>> ELSE <<SubSeq(s, 1, i - 1)>> \o Split(SubSeq(s, i + 1, Len(s)))

\* strings.Replace(s, "/", by, -1)
ReplaceSlash(s, by) == [i \in 1..Len(s) |-> IF s[i] = "/" THEN by ELSE s[i]]

\* path.IsAbs
IsAbs(s) == Len(s) > 0 /\ s[1] = "/"

RECURSIVE PathClean(_)
\* path.Clean on paths without "." and ".." elements: doubled and trailing
\* slashes are dropped, the empty path is "."
PathClean(s) ==
    IF s = <<>> THEN <<".">>
    ELSE IF Len(s) > 1 /\ s[Len(s)] = "/" THEN PathClean(SubSeq(s, 1, Len(s) - 1))
    ELSE IF \E i \in 1..(Len(s) - 1) : s[i] = "/" /\ s[i + 1] = "/"
    THEN LET i == CHOOSE k \in 1..(Len(s) - 1) : s[k] = "/" /\ s[k + 1] = "/"
         IN  PathClean(SubSeq(s, 1, i) \o SubSeq(s, i + 2, Len(s)))
    ELSE s

\* path.Dir: everything before the last slash, cleaned
PathDir(s) ==
    LET i == LastIndexOf(s, "/")
    IN  IF i = 0 THEN <<".">>
        ELSE IF i = 1 THEN <<"/">>
        ELSE PathClean(SubSeq(s, 1, i - 1))

\* path.Join(a, b)
PathJoin(a, b) ==
    IF a = <<>> THEN PathClean(b)
    ELSE IF b = <<>> THEN PathClean(a)
    ELSE PathClean(a \o <<"/">> \o b)

\* fmt.Sprintf("%v:%v", a, b)
ColonJoin(a, b) == a \o <<":">> \o b

(***************************************************************************)
(* The job and the runner configuration (immutable for a run).             *)
(***************************************************************************)
ProjectName == <<"proj">>

DefaultConfig ==
    [ hasDocker      |-> TRUE,
      shell          |-> "bash",
      fullProjectDir |-> <<"/", "builds", "/", "proj">>,
      rootDir        |-> <<"/", "builds">>,
      gitStrategy    |-> "fetch",
      disableCache   |-> FALSE,
      cacheDir       |-> <<>>,
      volumes        |-> <<>>,
      devices        |-> <<>>,
      services       |-> <<>>,
      optServices    |-> <<>>,
      allowedServices |-> <<>>,
      image          |-> <<"alpine">>,
      optImage       |-> <<>>,
      allowedImages  |-> <<>>,
      pullPolicy     |-> "always",
      waitTimeout    |-> 0,
      dockerAuthConfig |-> {},
      homeAuthConfigs  |-> {},
      credentials      |-> <<>> ]

VARIABLES
    cfg,          \* the job and runner configuration of this run
    containers,   \* daemon: container ID -> [name, volumes, running]
    images,       \* daemon: IDs of the images present locally
    nextId,       \* daemon: the next container ID it issues
    client,       \* executor.client: "nil", "open" or "closed"
    failures,     \* executor.failures
    builds,       \* executor.builds
    services,     \* executor.services: sequence of [id, name]
    caches,       \* executor.caches
    binds,        \* executor.binds
    volumesFrom,  \* executor.volumesFrom
    devices,      \* executor.devices
    links,        \* executor.links: sequence of [id, alias]
    linksMap,     \* createServices' linksMap: sequence of [alias, id]
    pc,           \* position of the Prepare / Run thread of control
    idx,          \* index of the service or volume the thread works on
    stages,       \* number of createContainer calls made so far
    cleanups,     \* number of Cleanup calls started so far
    tasks,        \* Cleanup's removal goroutines: sequence of [id, st]
    waits,        \* waitForServices' goroutines: sequence of "pending" / "done"
    serviceNames, \* createServices' serviceNames
    prepareResult, \* what Prepare returned: "" (not yet), "ok", "error", "panic"
    stageResults, \* whether each stage returned nil ("ok") or an error, in order
    buildContainer, \* the ID of the stage's container while the stage runs
    trace,        \* the warnings written to the build trace
    calls,        \* history: the daemon calls of the operation that ran last, in order
    created,      \* history: every ID a ContainerCreate call returned
    last,         \* history: summary of the operation that ran last
    faults,       \* history: number of operations in which the environment deviated
    wpc,          \* watchContainer: position of its thread of control
    wcase,        \* watchContainer: the case its select took ("": none yet)
    wresult,      \* watchContainer: the error it returned ("": not returned, "nil": nil)
    cont,         \* the watched container's state on the daemon
    aborted,      \* whether the abort channel is closed
    attachCh,     \* watchContainer's attachCh (capacity 2)
    waitCh,       \* watchContainer's waitCh (capacity 1)
    streams,      \* the reader and the writer goroutine: "off", "copying", "done"
    waiter,       \* the goroutine that runs waitForContainer: "off", "polling", "done"
    retries,      \* waitForContainer's retries
    kills,        \* history: number of SIGKILLs sent to the container, up to MaxKills
    abortedWaiting, \* history: abort fired while the select waited on a running container
    waited,       \* history: the waiter's result killContainer received ("": none)
    networks,     \* daemon: its networks, a sequence of [name, plugged]; plugged is the
                  \* network's Containers, a set of [id, Name]
    scrub         \* the removeContainer or killContainer round in progress, call by call

daemonVars == <<containers, images, nextId>>
execVars == <<client, failures, builds, services, caches, binds, volumesFrom, devices, links, linksMap,
              serviceNames, trace>>
ctlVars == <<pc, idx, stages, cleanups, tasks, waits, prepareResult, stageResults, buildContainer>>
histVars == <<calls, created, last>>
watchVars == <<wpc, wcase, wresult, cont, aborted, attachCh, waitCh, streams, waiter, retries,
               kills, abortedWaiting, waited>>
vars == <<cfg, daemonVars, execVars, ctlVars, histVars, faults, watchVars, networks, scrub>>

(***************************************************************************)
(* The world: the daemon's and the executor's state an operation works on. *)
(* Every operation below maps a world, its arguments and the outcome the   *)
(* daemon gives to its calls to the world the operation leaves; err is the *)
(* error it returns ("" is nil), ret the container ID it returns.          *)
(***************************************************************************)
NoCache == [called |-> FALSE, path |-> <<>>, found |-> 0, vols |-> {}]

\* no container.HostConfig was built
NoHostConfig == [made |-> FALSE, Binds |-> <<>>, VolumesFrom |-> <<>>, Links |-> <<>>, Devices |-> <<>>]

World(step) ==
    [ cs |-> containers, img |-> images, nid |-> nextId,
      fl |-> failures, ca |-> caches, bn |-> binds, vf |-> volumesFrom,
      ev |-> <<>>, cr |-> created,
      err |-> "", ret |-> 0, image |-> <<>>, step |-> step, cache |-> NoCache,
      host |-> NoHostConfig ]

Commit(w) ==
    /\ containers' = w.cs
    /\ images' = w.img
    /\ nextId' = w.nid
    /\ failures' = w.fl
    /\ caches' = w.ca
    /\ binds' = w.bn
    /\ volumesFrom' = w.vf
    /\ calls' = w.ev
    /\ created' = w.cr
    /\ last' = [op |-> w.step, err |-> w.err, cache |-> w.cache, host |-> w.host]

Log(w, op, id, name) ==
    [w EXCEPT !.ev = Append(@, [op |-> op, id |-> id, name |-> name, step |-> w.step])]

Fail(w, e) == [w EXCEPT !.err = e, !.ret = 0]

(***************************************************************************)
(* The container runtime (the calls of docker_helpers.Client).             *)
(***************************************************************************)
\* containers the daemon finds under a name; unnamed containers get a random
\* name of the daemon's and are never found by name
IdsByName(cs, name) == IF name = <<>> THEN {} ELSE {i \in DOMAIN cs : cs[i].name = name}

\* a reference to a container: by ID or by name
ById(id) == [id |-> id, name |-> <<>>]
ByName(name) == [id |-> 0, name |-> name]
Resolve(cs, ref) == IF ref.id # 0 THEN {ref.id} \cap DOMAIN cs ELSE IdsByName(cs, ref.name)

\* ContainerCreate: o is "ok", "err" (no ID) or "errid" (an ID and an error);
\* a name already in use is a conflict, which returns an error and no ID
ContainerCreate(w, name, volumes, o) ==
    IF o = "err" \/ IdsByName(w.cs, name) # {}
    THEN [Log(w, "create", 0, name) EXCEPT !.err = "error", !.ret = 0]
    ELSE [Log(w, "create", w.nid, name) EXCEPT
            !.cs = [i \in DOMAIN w.cs \cup {w.nid} |->
                      IF i = w.nid THEN [name |-> name, volumes |-> volumes, running |-> FALSE]
                      ELSE w.cs[i]],
            !.nid = w.nid + 1,
            !.cr = @ \cup {w.nid},
            !.ret = w.nid,
            !.err = IF o = "errid" THEN "error" ELSE ""]

\* ContainerStart
ContainerStart(w, id, ok) ==
    IF ok /\ id \in DOMAIN w.cs
    THEN [Log(w, "start", id, <<>>) EXCEPT !.cs[id].running = TRUE, !.err = ""]
    ELSE [Log(w, "start", id, <<>>) EXCEPT !.err = "error"]

(***************************************************************************)
(* executor.removeContainer: ContainerRemove with Force and RemoveVolumes. *)
(* The error of the removal is only logged by every caller, so the         *)
(* operation returns the world alone.  The disconnectNetwork of line 873   *)
(* changes neither the containers nor the executor's state and never stops *)
(* the removal; its calls are followed one by one under SpecScrub.         *)
(***************************************************************************)
\* no removeContainer or killContainer round is in progress
NoScrub ==
    [pc |-> "idle", op |-> "", ref |-> [id |-> 0, name |-> <<>>], nets |-> <<>>, i |-> 0,
     listed |-> FALSE, err |-> ""]

removeContainer(w, ref, ok) ==
    IF ok
    THEN [Log(w, "remove", ref.id, ref.name) EXCEPT
            !.cs = [i \in DOMAIN w.cs \ Resolve(w.cs, ref) |-> w.cs[i]]]
    ELSE Log(w, "remove", ref.id, ref.name)

\* s.failures = append(s.failures, id)
Failed(w, id) == [w EXCEPT !.fl = Append(@, id)]

(***************************************************************************)
(* Images.  The daemon's image store holds image IDs; a name without tag   *)
(* or digest resolves to its :latest tag.                                  *)
(***************************************************************************)
\* pullDockerImage's ref: ":latest" is added when neither ":" nor "@" occurs
WithLatest(ref) ==
    IF Contains(ref, ":") \/ Contains(ref, "@") THEN ref ELSE ref \o <<":", "latest">>

\* the ID of the image a reference resolves to; an ID resolves to itself
ImageIdOf(ref) ==
    IF Len(ref) > 0 /\ ref[1] = "sha256" THEN ref ELSE <<"sha256", ":">> \o WithLatest(ref)

PrebuiltImage == <<"gitlab-runner-prebuilt", ":", "x86_64-rev">>

\* the outcomes the daemon can give to the calls of getDockerImage
ImageOutcomes ==
    [inspect : BOOLEAN, pull : {"ok", "notfound", "error"}, reinspect : BOOLEAN]

\* ImageInspectWithRaw: the image's ID, or an error
ImageInspect(w, ref, ok) ==
    IF ok /\ ImageIdOf(ref) \in w.img
    THEN [w EXCEPT !.err = "", !.image = ImageIdOf(ref)]
    ELSE [w EXCEPT !.err = "error", !.image = <<>>]

(***************************************************************************)
(* The auth resolver.  A source of credentials is a set of AuthConfigs     *)
(* [ServerAddress, Username], at most one per registry; a *AuthConfig is   *)
(* <<>> (nil) or <<a>>.  c is the build and the runner's user: the build's *)
(* DOCKER_AUTH_CONFIG (c.dockerAuthConfig), the configuration in the       *)
(* user's home directory (c.homeAuthConfigs) and Build.Credentials         *)
(* (c.credentials); s.Build is never nil once Prepare has run.             *)
(***************************************************************************)
\* docker_helpers.SplitDockerImageName: the index (registry) of an image
\* name; the component before the first slash when it is a host name (of the
\* model's tokens: registry.example.com and localhost), docker.io otherwise
SplitDockerImageName(imageName) ==
    IF IndexOf(imageName, "/") = 2 /\ imageName[1] \in {"registry.example.com", "localhost"}
    THEN imageName[1]
    ELSE "docker.io"

\* docker_helpers.ResolveDockerAuthConfig
ResolveDockerAuthConfig(indexName, authConfigs) ==
    IF \E a \in authConfigs : a.ServerAddress = indexName
    THEN <<CHOOSE a \in authConfigs : a.ServerAddress = indexName>>
    ELSE <<>>

\* executor.getUserAuthConfiguration
getUserAuthConfiguration(c, indexName) == ResolveDockerAuthConfig(indexName, c.dockerAuthConfig)

\* executor.getHomeDirAuthConfiguration
getHomeDirAuthConfiguration(c, indexName) == ResolveDockerAuthConfig(indexName, c.homeAuthConfigs)

\* executor.getBuildAuthConfiguration: the map from URL to AuthConfig built
\* from the credentials of type registry (a later credential replaces an
\* earlier one of the same URL), resolved
getBuildAuthConfiguration(c, indexName) ==
    LET registry == {i \in 1..Len(c.credentials) : c.credentials[i].Type = "registry"}
        latest == {i \in registry :
                    \A j \in registry : c.credentials[j].URL = c.credentials[i].URL => j <= i}
    IN  ResolveDockerAuthConfig(indexName,
            {[ServerAddress |-> c.credentials[i].URL, Username |-> c.credentials[i].Username] :
                i \in latest})

\* a variant of getAuthConfig that prefers the build's credentials (C27 must
\* fail on it)
getAuthConfigBuildFirst(c, imageName) ==
    LET indexName == SplitDockerImageName(imageName)
    IN  IF getBuildAuthConfiguration(c, indexName) # <<>>
        THEN getBuildAuthConfiguration(c, indexName)
        ELSE IF getUserAuthConfiguration(c, indexName) # <<>>
        THEN getUserAuthConfiguration(c, indexName)
        ELSE getHomeDirAuthConfiguration(c, indexName)

\* executor.getAuthConfig
getAuthConfig(c, imageName) ==
    LET indexName == SplitDockerImageName(imageName)
    IN  IF getUserAuthConfiguration(c, indexName) # <<>>
        THEN getUserAuthConfiguration(c, indexName)
        ELSE IF getHomeDirAuthConfiguration(c, indexName) # <<>>
        THEN getHomeDirAuthConfiguration(c, indexName)
        ELSE getBuildAuthConfiguration(c, indexName)

\* executor.pullDockerImage; the pull carries the AuthConfig getDockerImage
\* resolved for imageName at line 155
pullDockerImage(w, imageName, o) ==
    LET pulling == [w EXCEPT !.ev = Append(@, [op |-> "pull", id |-> 0,
                                               name |-> WithLatest(imageName), step |-> w.step,
                                               auth |-> getAuthConfig(cfg, imageName)])]
    IN  IF o.pull = "notfound"
        THEN [pulling EXCEPT !.err = "BuildError", !.image = <<>>]
        ELSE IF o.pull = "error"
        THEN [pulling EXCEPT !.err = "error", !.image = <<>>]
        ELSE ImageInspect([pulling EXCEPT !.img = @ \cup {ImageIdOf(WithLatest(imageName))}],
                          imageName, o.reinspect)

\* a variant of getDockerImageInspected that treats never as if-not-present:
\* it pulls when the inspect failed (C7 must fail on it)
getDockerImageNeverPulls(w, inspected, pullPolicy, imageName, o) ==
    IF inspected.err = "" THEN inspected ELSE pullDockerImage(w, imageName, o)

\* a variant of getDockerImageInspected without the test for an image passed
\* by ID (C19 must fail on it)
getDockerImagePullsIds(w, inspected, pullPolicy, imageName, o) ==
    IF pullPolicy = "never" THEN inspected
    ELSE IF inspected.err = "" /\ pullPolicy = "if-not-present" THEN inspected
    ELSE pullDockerImage(w, imageName, o)

\* executor.getDockerImage from line 160 on: inspected is what the inspect of
\* line 158 returned
getDockerImageInspected(w, inspected, pullPolicy, imageName, o) ==
    IF pullPolicy = "never" THEN inspected
    ELSE IF inspected.err = "" /\ inspected.image = imageName THEN inspected
    ELSE IF inspected.err = "" /\ pullPolicy = "if-not-present" THEN inspected
    ELSE pullDockerImage(w, imageName, o)

\* executor.getDockerImage
getDockerImage(w, imageName, o) ==
    IF cfg.pullPolicy \notin {"always", "if-not-present", "never"} THEN [w EXCEPT !.err = "error", !.image = <<>>]
    ELSE getDockerImageInspected(w, ImageInspect(w, imageName, o.inspect), cfg.pullPolicy,
                                 imageName, o)

\* executor.getPrebuiltImage: the embedded helper image is imported when the
\* daemon does not have it; ok is whether inspect or asset, import and inspect
\* succeed
getPrebuiltImage(w, ok) ==
    IF ~ok THEN [w EXCEPT !.err = "error", !.image = <<>>]
    ELSE IF ImageIdOf(PrebuiltImage) \in w.img
    THEN [w EXCEPT !.err = "", !.image = ImageIdOf(PrebuiltImage)]
    ELSE [Log(w, "import", 0, PrebuiltImage) EXCEPT
            !.img = @ \cup {ImageIdOf(PrebuiltImage)},
            !.err = "", !.image = ImageIdOf(PrebuiltImage)]

(***************************************************************************)
(* executor.waitForContainer, by its result: the container is seen not     *)
(* running with exit code 0 ("exit0") or another code ("exitN"), or the    *)
(* inspect error is surfaced ("error").                                    *)
(***************************************************************************)
waitForContainer(w, id, o) ==
    IF o = "error" \/ id \notin DOMAIN w.cs THEN [w EXCEPT !.err = "error"]
    ELSE [w EXCEPT !.cs[id].running = FALSE,
                   !.err = IF o = "exit0" THEN "" ELSE "BuildError"]

(***************************************************************************)
(* Volume planner.                                                         *)
(***************************************************************************)
\* hex(md5(containerPath)): one token that depends on the path alone; the
\* model takes the hash to be free of collisions
Md5Hex(containerPath) == ToString(containerPath)

\* fmt.Sprintf("%s-cache-%x", ProjectUniqueName, hash)
CacheContainerName(containerPath) == ProjectName \o <<"-cache-", Md5Hex(containerPath)>>

\* executor.getAbsoluteContainerPath
getAbsoluteContainerPath(dir) ==
    IF IsAbs(dir) THEN dir ELSE PathJoin(cfg.fullProjectDir, dir)

\* a variant of addHostVolume that binds the container path as it was given
\* (C13 must fail on it)
addHostVolumeVerbatim(w, hostPath, containerPath) ==
    [w EXCEPT !.bn = Append(@, ColonJoin(hostPath, containerPath)), !.err = ""]

\* executor.addHostVolume
addHostVolume(w, hostPath, containerPath) ==
    [w EXCEPT !.bn = Append(@, ColonJoin(hostPath, getAbsoluteContainerPath(containerPath))),
              !.err = ""]

\* the outcomes of createCacheVolume's daemon calls
CacheOutcomes ==
    {"noimage", "create_err", "create_errid", "start_err", "wait_exitN", "wait_err", "ok"}

\* executor.createCacheVolume, lines 323-328: w is the world after the wait
createCacheVolumeWaited(w, id) ==
    IF w.err # "" THEN Fail(Failed(w, id), w.err) ELSE [w EXCEPT !.ret = id]

\* a variant of createCacheVolumeStarted that does not record the container
\* whose start failed (C23 must fail on it)
createCacheVolumeStartedForgets(w, id, o) ==
    IF w.err # "" THEN Fail(w, w.err)
    ELSE createCacheVolumeWaited(
             waitForContainer(w, id, IF o = "wait_exitN" THEN "exitN"
                                     ELSE IF o = "wait_err" THEN "error" ELSE "exit0"),
             id)

\* executor.createCacheVolume, lines 316-322: w is the world after the start
createCacheVolumeStarted(w, id, o) ==
    IF w.err # "" THEN Fail(Failed(w, id), w.err)
    ELSE createCacheVolumeWaited(
             waitForContainer(w, id, IF o = "wait_exitN" THEN "exitN"
                                     ELSE IF o = "wait_err" THEN "error" ELSE "exit0"),
             id)

\* executor.createCacheVolume, lines 307-315: w is the world after the create
createCacheVolumeCreated(w, o) ==
    IF w.err # "" /\ w.ret # 0 THEN Fail(Failed(w, w.ret), w.err)
    ELSE IF w.err # "" THEN Fail(w, w.err)
    ELSE createCacheVolumeStarted(ContainerStart(w, w.ret, o # "start_err"), w.ret, o)

\* executor.createCacheVolume, lines 285-306: w is the world after
\* getPrebuiltImage
createCacheVolumeImage(w, containerName, containerPath, o) ==
    IF w.err # "" THEN Fail(w, w.err)
    ELSE createCacheVolumeCreated(
             ContainerCreate(w, containerName, {containerPath},
                             IF o = "create_err" THEN "err"
                             ELSE IF o = "create_errid" THEN "errid" ELSE "ok"),
             o)

\* executor.createCacheVolume
createCacheVolume(w, containerName, containerPath, o) ==
    createCacheVolumeImage(getPrebuiltImage(w, o # "noimage"), containerName, containerPath, o)

\* the outcomes of addCacheVolume's daemon calls
VolumeOutcomes == [inspect : BOOLEAN, rm : BOOLEAN, cv : CacheOutcomes]

\* filepath.Abs
FilepathAbs(p) == IF IsAbs(p) THEN PathClean(p) ELSE PathJoin(<<"/", "cwd">>, p)

\* ContainerInspect(containerName) of line 358: the ID found, 0 on an error
InspectByName(w, containerName, ok) ==
    IF ok /\ IdsByName(w.cs, containerName) # {}
    THEN CHOOSE i \in IdsByName(w.cs, containerName) : TRUE
    ELSE 0

\* the history's record of that inspect
Inspected(w, containerPath, inspectedID) ==
    [Log(w, "inspect", inspectedID, CacheContainerName(containerPath)) EXCEPT
       !.cache = [called |-> TRUE, path |-> containerPath, found |-> inspectedID,
                  vols |-> IF inspectedID = 0 THEN {} ELSE w.cs[inspectedID].volumes]]

\* executor.addCacheVolume, lines 370-377: w is the world after
\* createCacheVolume
addCacheVolumeCreated(w) ==
    IF w.err # "" THEN w ELSE [w EXCEPT !.vf = Append(@, w.ret), !.ret = 0]

\* executor.addCacheVolume, lines 368-369
addCacheVolumeCreate(w, containerPath, o) ==
    addCacheVolumeCreated(
        createCacheVolume(w, CacheContainerName(containerPath), containerPath, o.cv))

\* executor.addCacheVolume, lines 359-377: w is the world after the inspect
\* by name, which found inspectedID
addCacheVolumeInspected(w, containerPath, inspectedID, volumes, o) ==
    IF inspectedID # 0 /\ containerPath \in volumes
    THEN addCacheVolumeCreate(removeContainer(w, ById(inspectedID), o.rm), containerPath, o)
    ELSE IF inspectedID # 0
    THEN [w EXCEPT !.vf = Append(@, inspectedID), !.err = "", !.ret = 0]
    ELSE addCacheVolumeCreate(w, containerPath, o)

\* executor.addCacheVolume, lines 355-358
addCacheVolumeNamed(w, containerPath, inspectedID, o) ==
    addCacheVolumeInspected(Inspected(w, containerPath, inspectedID), containerPath, inspectedID,
                            IF inspectedID = 0 THEN {} ELSE w.cs[inspectedID].volumes, o)

\* executor.addCacheVolume, lines 335-378, on the absolute container path
addCacheVolumeAbs(w, containerPath, o) ==
    IF cfg.disableCache THEN [w EXCEPT !.err = ""]
    ELSE IF cfg.cacheDir # <<>>
    THEN [w EXCEPT
            !.bn = Append(@, ColonJoin(FilepathAbs(cfg.cacheDir \o <<"/">> \o ProjectName
                                                   \o <<"/", Md5Hex(containerPath)>>),
                                       containerPath)),
            !.err = ""]
    ELSE addCacheVolumeNamed(w, containerPath,
                             InspectByName(w, CacheContainerName(containerPath), o.inspect), o)

\* executor.addCacheVolume
addCacheVolume(w, dir, o) == addCacheVolumeAbs(w, getAbsoluteContainerPath(dir), o)

\* executor.addVolume
addVolume(w, volume, o) ==
    IF Len(SplitN2(volume)) = 2 THEN addHostVolume(w, SplitN2(volume)[1], SplitN2(volume)[2])
    ELSE addCacheVolume(w, SplitN2(volume)[1], o)

RECURSIVE isParentOf(_, _)
\* the closure isParentOf of executor.isHostMountedVolume
isParentOf(parent, dir) ==
    IF dir = <<"/">> \/ dir = <<".">> THEN FALSE
    ELSE IF dir = parent THEN TRUE
    ELSE isParentOf(parent, PathDir(dir))

\* executor.isHostMountedVolume
isHostMountedVolume(dir, volumes) ==
    \E i \in 1..Len(volumes) :
        LET hostVolume == Split(volumes[i])
        IN  /\ Len(hostVolume) >= 2
            /\ isParentOf(PathClean(hostVolume[2]), PathClean(dir))

\* a variant of createBuildVolumeCreated that does not append the container
\* to caches (C26 must fail on it)
createBuildVolumeCreatedUnlisted(w) ==
    IF w.err # "" THEN w
    ELSE [w EXCEPT !.vf = Append(@, w.ret), !.ret = 0]

\* executor.createBuildVolume, lines 423-430: w is the world after
\* createCacheVolume
createBuildVolumeCreated(w) ==
    IF w.err # "" THEN w
    ELSE [w EXCEPT !.ca = Append(@, w.ret), !.vf = Append(@, w.ret), !.ret = 0]

\* executor.createBuildVolume, on parentDir
createBuildVolumeIn(w, parentDir, o) ==
    IF ~IsAbs(parentDir) /\ parentDir # <<"/">> THEN [w EXCEPT !.err = "error"]
    ELSE IF isHostMountedVolume(cfg.rootDir, cfg.volumes) THEN [w EXCEPT !.err = ""]
    ELSE IF cfg.gitStrategy = "fetch" /\ ~cfg.disableCache THEN addVolume(w, parentDir, o)
    ELSE createBuildVolumeCreated(createCacheVolume(w, <<>>, parentDir, o.cv))

\* executor.createBuildVolume
createBuildVolume(w, o) == createBuildVolumeIn(w, PathDir(cfg.fullProjectDir), o)

(***************************************************************************)
(* Devices.                                                                *)
(***************************************************************************)
\* executor.parseDeviceString
parseDeviceString(deviceString) ==
    LET parts == Split(deviceString)
    IN  [ err |-> IF Len(parts) > 3 THEN "error" ELSE "",
          PathOnHost |-> parts[1],
          PathInContainer |-> IF Len(parts) >= 2 THEN parts[2] ELSE parts[1],
          CgroupPermissions |-> IF Len(parts) >= 3 THEN parts[3] ELSE <<"rwm">> ]

RECURSIVE bindDevices(_, _)
\* executor.bindDevices on the device strings left to parse: the devices
\* parsed before the first failure stay appended
bindDevices(devs, deviceStrings) ==
    IF deviceStrings = <<>> THEN [devices |-> devs, err |-> ""]
    ELSE LET device == parseDeviceString(Head(deviceStrings))
         IN  IF device.err # "" THEN [devices |-> devs, err |-> "error"]
             ELSE bindDevices(Append(devs, device), Tail(deviceStrings))

(***************************************************************************)
(* Reference parser.  A reference is name[:tag][@digest]; the name is a    *)
(* list of components separated by "/", the first of which may be a host   *)
(* with a port; a component is a list of words separated by "-" or "__".   *)
(***************************************************************************)
Separators == {"/", ":", "@", "-", "__"}
\* tokens that no production of the reference grammar accepts
InvalidWords == {"!bad"}
Digits == {"5000"}

IsWord(t) == t \notin Separators /\ t \notin InvalidWords

\* one path component: word (("-" | "__") word)*
IsComponent(c) ==
    /\ Len(c) % 2 = 1
    /\ \A i \in 1..Len(c) : IF i % 2 = 1 THEN IsWord(c[i]) ELSE c[i] \in {"-", "__"}

RECURSIVE SplitSlash(_)
SplitSlash(s) ==
    LET i == IndexOf(s, "/")
    IN  IF i = 0 THEN <<s>> ELSE <<SubSeq(s, 1, i - 1)>> \o SplitSlash(SubSeq(s, i + 1, Len(s)))

\* the name production of reference.ReferenceRegexp
IsReferenceName(name) ==
    LET comps == SplitSlash(name)
        first == comps[1]
        hostPort == /\ Len(comps) > 1
                    /\ Len(first) = 3
                    /\ IsWord(first[1]) /\ first[2] = ":" /\ first[3] \in Digits
    IN  /\ name # <<>>
        /\ \A i \in 2..Len(comps) : IsComponent(comps[i])
        /\ (IsComponent(first) \/ hostPort)

\* reference.ReferenceRegexp.FindStringSubmatch: ok, and the captures
\* name (match[1]) and tag (match[2])
ReferenceMatch(ref) ==
    LET at == IndexOf(ref, "@")
        nameTag == IF at = 0 THEN ref ELSE SubSeq(ref, 1, at - 1)
        digest == IF at = 0 THEN <<>> ELSE SubSeq(ref, at + 1, Len(ref))
        colon == LastIndexOf(nameTag, ":")
        slash == LastIndexOf(nameTag, "/")
        name == IF colon > slash THEN SubSeq(nameTag, 1, colon - 1) ELSE nameTag
        tag == IF colon > slash THEN SubSeq(nameTag, colon + 1, Len(nameTag)) ELSE <<>>
    IN  [ ok |-> /\ IsReferenceName(name)
                 /\ (colon > slash => Len(tag) = 1 /\ IsWord(tag[1]))
                 /\ (at # 0 => digest # <<>> /\ \A i \in 1..Len(digest) : digest[i] \notin InvalidWords),
          name |-> name,
          tag |-> tag ]

\* ReferenceRegexpNoPort `^(.*?)(|:[0-9]+)(|/.*)$`: the shortest prefix that
\* is followed by an optional port and by the end or a slash; the captures
\* 1 and 3
NoPortMatch(name) ==
    LET rest(k) == SubSeq(name, k + 1, Len(name))
        portAt(k) == Len(rest(k)) >= 2 /\ rest(k)[1] = ":" /\ rest(k)[2] \in Digits
                     /\ (Len(rest(k)) = 2 \/ rest(k)[3] = "/")
        fits(k) == rest(k) = <<>> \/ rest(k)[1] = "/" \/ portAt(k)
        k == CHOOSE i \in 0..Len(name) : fits(i) /\ \A j \in 0..(i - 1) : ~fits(j)
    IN  [ prefix |-> SubSeq(name, 1, k),
          suffix |-> IF rest(k) # <<>> /\ rest(k)[1] = "/" THEN rest(k)
                     ELSE IF portAt(k) THEN SubSeq(rest(k), 3, Len(rest(k)))
                     ELSE <<>> ]

\* executor.splitServiceAndVersion
splitServiceAndVersion(serviceDescription) ==
    LET match == ReferenceMatch(serviceDescription)
        matchService == NoPortMatch(match.name)
        service == matchService.prefix \o matchService.suffix
        linkName == ReplaceSlash(service, "__")
        alternativeName == ReplaceSlash(service, "-")
    IN  IF ~match.ok
        THEN [service |-> <<>>, version |-> <<"latest">>,
              imageName |-> serviceDescription, linkNames |-> <<>>]
        ELSE [service |-> service,
              version |-> IF Len(match.tag) > 0 THEN match.tag ELSE <<"latest">>,
              imageName |-> IF Len(match.tag) > 0 THEN serviceDescription
                            ELSE match.name \o <<":", "latest">>,
              linkNames |-> IF linkName # alternativeName THEN <<linkName, alternativeName>>
                            ELSE <<linkName>>]

(***************************************************************************)
(* Allow-list verification and image name.                                 *)
(***************************************************************************)
RECURSIVE GlobMatch(_, _)
\* filepath.Match: "*" matches any sequence of non-separator tokens
GlobMatch(pattern, name) ==
    IF pattern = <<>> THEN name = <<>>
    ELSE IF Head(pattern) = "*"
    THEN \/ GlobMatch(Tail(pattern), name)
         \/ (name # <<>> /\ Head(name) # "/" /\ GlobMatch(pattern, Tail(name)))
    ELSE name # <<>> /\ Head(name) = Head(pattern) /\ GlobMatch(Tail(pattern), Tail(name))

\* a variant of verifyAllowedImage without the loop over the internal images
\* (C17 must fail on it)
verifyAllowedImageGlobsOnly(image, allowedImages, internalImages) ==
    IF \E i \in 1..Len(allowedImages) : GlobMatch(allowedImages[i], image) THEN ""
    ELSE IF Len(allowedImages) # 0 THEN "invalid image"
    ELSE ""

\* executor.verifyAllowedImage: the error it returns
verifyAllowedImage(image, allowedImages, internalImages) ==
    IF \E i \in 1..Len(allowedImages) : GlobMatch(allowedImages[i], image) THEN ""
    ELSE IF \E i \in 1..Len(internalImages) : internalImages[i] = image THEN ""
    ELSE IF Len(allowedImages) # 0 THEN "invalid image"
    ELSE ""

\* the job's variables, by the token that refers to them
JobVariables ==
    [v \in {"$IMAGE", "$DB", "$MIRROR"} |->
        IF v = "$IMAGE" THEN <<"ruby">>
        ELSE IF v = "$DB" THEN <<"postgres">>
        ELSE <<"mirror", "/", "ruby">>]

RECURSIVE ExpandValue(_)
\* Build.GetAllVariables().ExpandValue
ExpandValue(value) ==
    IF value = <<>> THEN <<>>
    ELSE (IF Head(value) \in DOMAIN JobVariables THEN JobVariables[Head(value)]
          ELSE <<Head(value)>>) \o ExpandValue(Tail(value))

\* executor.getImageName
getImageName ==
    IF cfg.optImage # <<>>
    THEN IF verifyAllowedImage(cfg.optImage, cfg.allowedImages, <<cfg.image>>) # ""
         THEN [image |-> <<>>, err |-> "invalid image"]
         ELSE [image |-> ExpandValue(cfg.optImage), err |-> ""]
    ELSE IF cfg.image = <<>> THEN [image |-> <<>>, err |-> "error"]
    ELSE [image |-> cfg.image, err |-> ""]

RECURSIVE getServiceNames(_, _)
\* executor.getServiceNames, on the job's services left to verify
getServiceNames(names, optServices) ==
    IF optServices = <<>> THEN [services |-> names, err |-> ""]
    ELSE LET service == ExpandValue(Head(optServices))
         IN  IF verifyAllowedImage(service, cfg.allowedServices, cfg.services) # ""
             THEN [services |-> <<>>, err |-> "invalid image"]
             ELSE getServiceNames(Append(names, service), Tail(optServices))

(***************************************************************************)
(* Service manager.                                                        *)
(***************************************************************************)
ServiceContainerName(service) == ProjectName \o <<"-">> \o ReplaceSlash(service, "__")

ServiceOutcomes ==
    [img : ImageOutcomes, rm : BOOLEAN, create : {"ok", "err", "errid"}, start : BOOLEAN]

\* executor.createService, lines 579-585: w is the world after the start
createServiceStarted(w, id) ==
    IF w.err # "" THEN Fail(Failed(w, id), w.err) ELSE [w EXCEPT !.ret = id]

\* executor.createService, lines 572-578: w is the world after the create
createServiceCreated(w, o) ==
    IF w.err # "" THEN Fail(w, w.err)
    ELSE createServiceStarted(ContainerStart(w, w.ret, o.start), w.ret)

\* executor.createService, lines 544-571: w is the world after getDockerImage
createServiceImage(w, containerName, o) ==
    IF w.err # "" THEN Fail(w, w.err)
    ELSE createServiceCreated(
             ContainerCreate(removeContainer(w, ByName(containerName), o.rm),
                             containerName, {}, o.create),
             o)

\* executor.createService
createService(w, service, version, image, o) ==
    IF Len(service) = 0 THEN Fail(w, "error")
    ELSE createServiceImage(getDockerImage(w, image, o.img), ServiceContainerName(service), o)

\* linksMap[linkName] != nil
Mapped(lm, linkName) == \E i \in 1..Len(lm) : lm[i].alias = linkName

\* a variant of MapAll in which a link name already mapped is mapped anew to
\* the container (C12 must fail on it)
MapAllLastWins(lm, linkNames, id) ==
    [i \in 1..Len(lm) |-> IF \E j \in 1..Len(linkNames) : linkNames[j] = lm[i].alias
                          THEN [alias |-> lm[i].alias, id |-> id] ELSE lm[i]]
    \o [j \in 1..Len(SelectSeq(linkNames, LAMBDA a : \A i \in 1..Len(lm) : lm[i].alias # a)) |->
          [alias |-> SelectSeq(linkNames, LAMBDA a : \A i \in 1..Len(lm) : lm[i].alias # a)[j],
           id |-> id]]

RECURSIVE MapAll(_, _, _)
\* the assignments linksMap[linkName] = container of the loop of
\* createFromServiceDescription
MapAll(lm, linkNames, id) ==
    IF linkNames = <<>> THEN lm
    ELSE MapAll(IF Mapped(lm, Head(linkNames)) THEN lm
                ELSE Append(lm, [alias |-> Head(linkNames), id |-> id]),
                Tail(linkNames), id)

\* executor.createFromServiceDescription, lines 649-658: w is the world after
\* createService
createFromServiceCreated(w, svcs, lm, split) ==
    IF w.err # "" THEN [w |-> w, services |-> svcs, linksMap |-> lm]
    ELSE [w |-> w,
          services |-> Append(svcs, [id |-> w.ret, name |-> ServiceContainerName(split.service)]),
          linksMap |-> MapAll(lm, split.linkNames, w.ret)]

\* executor.createFromServiceDescription, on the split description: the
\* service is created at the first link name not yet mapped, and every link
\* name not yet mapped is then mapped to it
createFromServiceSplit(w, svcs, lm, split, o) ==
    IF \A i \in 1..Len(split.linkNames) : Mapped(lm, split.linkNames[i])
    THEN [w |-> [w EXCEPT !.err = ""], services |-> svcs, linksMap |-> lm]
    ELSE createFromServiceCreated(
             createService(w, split.service, split.version, split.imageName, o),
             svcs, lm, split)

\* executor.createFromServiceDescription: the result is the world with the
\* services and the linksMap it leaves
createFromServiceDescription(w, svcs, lm, description, o) ==
    createFromServiceSplit(w, svcs, lm, splitServiceAndVersion(description), o)

\* the outcomes of runServiceHealthCheckContainer's daemon calls
HealthOutcomes ==
    [run : {"noimage", "create_err", "create_errid", "start_err",
            "exit0", "exitN", "wait_err", "timeout"},
     rm : BOOLEAN]

WaitContainerName(service) == service.name \o <<"-wait-for-service">>

\* the deferred s.removeContainer(resp.ID) of line 1111: the function's
\* error is the one it had when it returned
healthCheckDeferred(w, id, o) == [removeContainer(w, ById(id), o.rm) EXCEPT !.err = w.err]

\* executor.runServiceHealthCheckContainer, lines 1112-1128: w is the world
\* after the start
healthCheckStarted(w, id, o) ==
    IF w.err # "" THEN healthCheckDeferred(w, id, o)
    ELSE IF o.run = "timeout" THEN healthCheckDeferred([w EXCEPT !.err = "timeout"], id, o)
    ELSE healthCheckDeferred(
             waitForContainer(w, id, IF o.run = "exitN" THEN "exitN"
                                     ELSE IF o.run = "wait_err" THEN "error" ELSE "exit0"),
             id, o)

\* executor.runServiceHealthCheckContainer, lines 1107-1115: w is the world
\* after the create
healthCheckCreated(w, o) ==
    IF w.err # "" THEN Fail(w, w.err)
    ELSE healthCheckStarted(ContainerStart(w, w.ret, o.run # "start_err"), w.ret, o)

\* executor.runServiceHealthCheckContainer, lines 1087-1110: w is the world
\* after getPrebuiltImage
healthCheckImage(w, service, o) ==
    IF w.err # "" THEN Fail(w, w.err)
    ELSE healthCheckCreated(
             ContainerCreate(w, WaitContainerName(service), {},
                             IF o.run = "create_err" THEN "err"
                             ELSE IF o.run = "create_errid" THEN "errid" ELSE "ok"),
             o)

\* executor.runServiceHealthCheckContainer
runServiceHealthCheckContainer(w, service, o) ==
    healthCheckImage(getPrebuiltImage(w, o.run # "noimage"), service, o)

\* the default of common.DefaultWaitForServicesTimeout
DefaultWaitForServicesTimeout == 30

\* the timeout waitForServices uses
waitForServicesTimeout ==
    IF cfg.waitTimeout = 0 THEN DefaultWaitForServicesTimeout ELSE cfg.waitTimeout

RECURSIVE buildServiceLinks(_, _, _)
\* executor.buildServiceLinks; inspectOk[i] is whether the inspect of the
\* i-th entry succeeds (the entries are visited in the order they were added)
buildServiceLinks(cs, lm, inspectOk) ==
    IF lm = <<>> THEN <<>>
    ELSE (IF Head(inspectOk) /\ Head(lm).id \in DOMAIN cs /\ cs[Head(lm).id].running
          THEN <<[id |-> Head(lm).id, alias |-> Head(lm).alias]>> ELSE <<>>)
         \o buildServiceLinks(cs, Tail(lm), Tail(inspectOk))

(***************************************************************************)
(* Sandbox runner.                                                         *)
(***************************************************************************)
BuildContainerName(containerType) == ProjectName \o <<"-", containerType>>

ContainerOutcomes ==
    [img : ImageOutcomes, rm : BOOLEAN, create : {"ok", "err", "errid"}, inspect : BOOLEAN]

\* executor.createContainer, lines 737-751: w is the world after the create
createContainerCreated(w, o) ==
    IF w.err # "" /\ w.ret # 0 THEN Fail(Failed(w, w.ret), w.err)
    ELSE IF w.err # "" THEN Fail(w, w.err)
    ELSE IF ~o.inspect THEN Fail(Failed(w, w.ret), "error")
    ELSE w

\* the container.HostConfig of lines 711-732, by the fields the executor
\* accumulated
HostConfig(w) ==
    [made |-> TRUE, Binds |-> w.bn, VolumesFrom |-> w.vf, Links |-> links, Devices |-> devices]

\* executor.createContainer, lines 690-736: w is the world after
\* getDockerImage
createContainerImage(w, containerName, o) ==
    IF w.err # "" THEN Fail(w, w.err)
    ELSE createContainerCreated(
             ContainerCreate(removeContainer([w EXCEPT !.host = HostConfig(w)],
                                             ByName(containerName), o.rm),
                             containerName, {}, o.create),
             o)

\* executor.createContainer
createContainer(w, containerType, imageName, o) ==
    createContainerImage(getDockerImage(w, imageName, o.img), BuildContainerName(containerType), o)

(***************************************************************************)
(* The runs the model explores: the configurations and the containers and  *)
(* images a previous run left on the daemon.                               *)
(***************************************************************************)
VolCache == <<"/", "cache">>
VolHost == <<"/", "host", ":", "/", "data">>
VolBuilds == <<"/", "srv", ":", "/", "builds">>
\* a bind whose container side is relative
VolHostRel == <<"/", "host", ":", "data">>
SvcPostgres == <<"postgres", ":", "9.6">>
SvcRedis == <<"ns", "/", "redis">>
\* a service whose reference does not match the reference grammar
SvcInvalid == <<"!bad">>
\* a service whose only alias is also the second alias of SvcRedis
SvcRedisDash == <<"ns", "-", "redis">>

\* the volume planner's cases: no service
VolumeConfigs ==
    {[DefaultConfig EXCEPT !.gitStrategy = gd[1], !.disableCache = gd[2], !.volumes = v] :
        gd \in {<<"fetch", FALSE>>, <<"clone", FALSE>>, <<"fetch", TRUE>>},
        v \in {<<>>, <<VolCache>>, <<VolHost, VolCache>>, <<VolBuilds>>}}
    \cup {[DefaultConfig EXCEPT !.cacheDir = <<"/", "var", "/", "cache">>, !.volumes = v] :
            v \in {<<>>, <<VolHost, VolCache>>}}
    \cup {[DefaultConfig EXCEPT !.gitStrategy = "clone", !.volumes = <<VolHostRel, VolHost>>]}

\* the service manager's cases
ServiceConfigs ==
    {[DefaultConfig EXCEPT !.gitStrategy = "clone", !.services = sv, !.pullPolicy = pp] :
        sv \in {<<SvcPostgres>>, <<SvcPostgres, SvcRedis>>, <<SvcRedisDash, SvcRedis>>},
        pp \in {"if-not-present"}}
    \cup {[DefaultConfig EXCEPT !.pullPolicy = pp, !.services = <<SvcPostgres>>] :
            pp \in {"always", "never", "sometimes"}}
    \cup {[DefaultConfig EXCEPT !.waitTimeout = -1, !.services = <<SvcPostgres>>],
          [DefaultConfig EXCEPT !.gitStrategy = "clone", !.services = <<SvcInvalid>>],
          [DefaultConfig EXCEPT !.pullPolicy = "if-not-present", !.services = <<SvcPostgres>>,
                                !.volumes = <<VolCache>>]}

\* an allow-list glob
GlobRegistry == <<"registry", "/", "*">>

\* the cases Prepare rejects
RejectedConfigs ==
    {[DefaultConfig EXCEPT !.hasDocker = FALSE],
     [DefaultConfig EXCEPT !.shell = "powershell"],
     [DefaultConfig EXCEPT !.devices = <<<<"/", "dev", "/", "kvm">>,
                                         <<"a", ":", "b", ":", "c", ":", "d">>>>],
     [DefaultConfig EXCEPT !.fullProjectDir = <<"proj">>, !.rootDir = <<".">>],
     [DefaultConfig EXCEPT !.optImage = <<"ruby">>, !.allowedImages = <<GlobRegistry>>],
     [DefaultConfig EXCEPT !.optImage = <<"$MIRROR">>,
                           !.allowedImages = <<<<"*">>>>,
                           !.fullProjectDir = <<"proj">>, !.rootDir = <<".">>],
     [DefaultConfig EXCEPT !.optImage = <<"registry", "/", "ruby">>,
                           !.allowedImages = <<GlobRegistry>>,
                           !.fullProjectDir = <<"proj">>, !.rootDir = <<".">>]}

\* a project directly below the root directory
RootParentConfig ==
    [DefaultConfig EXCEPT !.gitStrategy = "clone", !.rootDir = <<"/">>,
                          !.fullProjectDir = <<"/", "proj">>]

Configs ==
    VolumeConfigs \cup ServiceConfigs \cup RejectedConfigs \cup {RootParentConfig}
    \cup {[DefaultConfig EXCEPT
            !.disableCache = TRUE,
            !.dockerAuthConfig = {[ServerAddress |-> "docker.io", Username |-> "user"]},
            !.homeAuthConfigs = {[ServerAddress |-> "docker.io", Username |-> "home"]},
            !.credentials = <<[Type |-> "registry", URL |-> "docker.io", Username |-> "job"]>>],
          [DefaultConfig EXCEPT
            !.disableCache = TRUE,
            !.dockerAuthConfig = {[ServerAddress |-> "localhost", Username |-> "user"]},
            !.homeAuthConfigs = {[ServerAddress |-> "docker.io", Username |-> "home"]},
            !.credentials = <<[Type |-> "registry", URL |-> "docker.io", Username |-> "job"]>>],
          [DefaultConfig EXCEPT
            !.disableCache = TRUE,
            !.credentials = <<[Type |-> "git", URL |-> "docker.io", Username |-> "git"],
                              [Type |-> "registry", URL |-> "docker.io", Username |-> "old"],
                              [Type |-> "registry", URL |-> "docker.io", Username |-> "job"]>>]}

\* a cache container a previous run of the project left
OldCache(path, volumes) == [name |-> CacheContainerName(path), volumes |-> volumes, running |-> FALSE]

Leftovers ==
    { <<>>,
      <<OldCache(<<"/", "builds">>, {<<"/", "builds">>})>>,
      <<OldCache(<<"/", "builds">>, {})>>,
      <<OldCache(VolCache, {VolCache})>>,
      <<OldCache(VolCache, {<<"/", "old">>})>> }

AllImages ==
    {ImageIdOf(PrebuiltImage), ImageIdOf(<<"alpine">>), ImageIdOf(SvcPostgres),
     ImageIdOf(SvcRedis), ImageIdOf(SvcRedisDash)}

\* watchContainer at position p on a container in state c, nothing started
WatchAt(p, c) ==
    /\ wpc = p /\ wcase = "" /\ wresult = "" /\ cont = c /\ aborted = FALSE
    /\ attachCh = <<>> /\ waitCh = <<>>
    /\ streams = [g \in {"reader", "writer"} |-> "off"]
    /\ waiter = "off" /\ retries = 0
    /\ kills = 0 /\ abortedWaiting = FALSE /\ waited = ""

\* a new executor, before Prepare
NewExecutor ==
    /\ nextId = Len(containers) + 1
    /\ client = "nil"
    /\ failures = <<>> /\ builds = <<>> /\ services = <<>> /\ caches = <<>>
    /\ binds = <<>> /\ volumesFrom = <<>> /\ devices = <<>> /\ links = <<>>
    /\ linksMap = <<>> /\ serviceNames = <<>> /\ trace = <<>>
    /\ pc = "start" /\ idx = 0 /\ stages = 0 /\ cleanups = 0
    /\ tasks = <<>> /\ waits = <<>>
    /\ prepareResult = "" /\ stageResults = <<>> /\ buildContainer = 0
    /\ calls = <<>> /\ created = {}
    /\ last = [op |-> "", err |-> "", cache |-> NoCache, host |-> NoHostConfig]
    /\ faults = 0

Init ==
    /\ cfg \in Configs
    /\ containers \in (IF cfg \in VolumeConfigs THEN Leftovers ELSE {<<>>})
    /\ images \in (IF cfg \in ServiceConfigs THEN {{}, AllImages} ELSE {AllImages})
    /\ NewExecutor
    /\ WatchAt("idle", "none")
    /\ networks = <<>> /\ scrub = NoScrub

(***************************************************************************)
(* Prepare.                                                                *)
(***************************************************************************)
\* a variant of ShellPassFile in which no shell requires a script file (C15
\* must fail on it)
ShellPassFileNever(shell) == FALSE

\* PowerShell.GetConfiguration reports PassFile: true
ShellPassFile(shell) == shell = "powershell"

\* Prepare returns err
PrepareFails == pc' = "failed" /\ prepareResult' = "error"

\* an operation that issues no daemon call
Note(step, err) ==
    /\ last' = [op |-> step, err |-> err, cache |-> NoCache, host |-> NoHostConfig]
    /\ calls' = <<>>

\* the environment deviates in this operation (a daemon call fails, a service
\* is not healthy, a process exits) only while the run's budget lasts
Deviates(nominal) ==
    /\ nominal \/ faults < MaxFaults
    /\ faults' = IF nominal THEN faults ELSE faults + 1


\* a variant of StepDone that goes on with the next step whatever the step
\* returned (C8 must fail on it)
StepDoneGoesOn(w, okPc) == Commit(w) /\ pc' = okPc /\ UNCHANGED prepareResult

\* a step of createDependencies ends: Prepare returns its error, or goes on
\* with the step at okPc
StepDone(w, okPc) ==
    /\ Commit(w)
    /\ IF w.err # "" THEN PrepareFails ELSE pc' = okPc /\ UNCHANGED prepareResult

\* a turn of a loop of createDependencies ends
TurnDone(w) ==
    /\ Commit(w)
    /\ IF w.err # "" THEN PrepareFails /\ UNCHANGED idx
       ELSE idx' = idx + 1 /\ UNCHANGED <<pc, prepareResult>>

\* the error executor.Prepare returns before createDependencies; connect is
\* the outcome of connectDocker
PrepareError(connect) ==
    IF ShellPassFile(cfg.shell) THEN "error"
    ELSE IF ~cfg.hasDocker THEN "error"
    ELSE IF getImageName.err # "" THEN getImageName.err
    ELSE IF connect # "ok" THEN "error" ELSE ""

\* whether executor.Prepare leaves s.client set: connectDocker assigns it
\* before it calls Info
Connected(connect) ==
    ~ShellPassFile(cfg.shell) /\ cfg.hasDocker /\ getImageName.err = "" /\ connect # "new_err"

\* executor.Prepare up to connectDocker; prepareBuildsDir reads
\* config.Docker.Volumes before the Docker section is checked for nil
PrepareBegin ==
    /\ pc = "start"
    /\ \E connect \in {"ok", "new_err", "info_err"} :
        /\ Deviates(connect = "ok")
        /\ client' = IF cfg.hasDocker /\ Connected(connect) THEN "open" ELSE client
        /\ IF ~cfg.hasDocker THEN pc' = "panic" /\ prepareResult' = "panic"
           ELSE IF PrepareError(connect) # "" THEN PrepareFails
           ELSE pc' = "devices" /\ UNCHANGED prepareResult
        /\ Note("Prepare", IF ~cfg.hasDocker THEN "panic" ELSE PrepareError(connect))
    /\ UNCHANGED <<cfg, watchVars, networks, scrub, daemonVars, failures, builds, services, caches, binds, volumesFrom,
                   devices, links, linksMap, serviceNames, trace, idx, stages, cleanups,
                   tasks, waits, stageResults, buildContainer, created>>

\* createDependencies: bindDevices
BindDevices ==
    /\ pc = "devices"
    /\ LET r == bindDevices(devices, cfg.devices)
       IN  /\ devices' = r.devices
           /\ IF r.err # "" THEN PrepareFails ELSE pc' = "buildvol" /\ UNCHANGED prepareResult
           /\ Note("bindDevices", r.err)
    /\ UNCHANGED <<cfg, watchVars, networks, scrub, daemonVars, client, failures, builds, services, caches, binds,
                   volumesFrom, links, linksMap, serviceNames, trace, idx, stages, cleanups,
                   tasks, waits, stageResults, buildContainer, created, faults>>

\* createDependencies: createBuildVolume
CreateBuildVolume ==
    /\ pc = "buildvol"
    /\ \E o \in VolumeOutcomes :
        /\ Deviates(o.inspect /\ o.rm /\ o.cv = "ok")
        /\ StepDone(createBuildVolume(World("createBuildVolume"), o), "services")
    /\ UNCHANGED <<cfg, watchVars, networks, scrub, client, builds, services, devices, links, linksMap, serviceNames,
                   trace, idx, stages, cleanups, tasks, waits, stageResults, buildContainer>>

\* createServices: getServiceNames
CreateServicesBegin ==
    /\ pc = "services"
    /\ LET r == getServiceNames(cfg.services, cfg.optServices)
       IN  /\ serviceNames' = r.services
           /\ IF r.err # "" THEN PrepareFails ELSE pc' = "service" /\ UNCHANGED prepareResult
           /\ Note("getServiceNames", r.err)
    /\ linksMap' = <<>>
    /\ idx' = 1
    /\ UNCHANGED <<cfg, watchVars, networks, scrub, daemonVars, client, failures, builds, services, caches, binds,
                   volumesFrom, devices, links, trace, stages, cleanups, tasks, waits,
                   stageResults, buildContainer, created, faults>>

\* createServices: one turn of the loop over serviceNames
CreateFromServiceDescription ==
    /\ pc = "service"
    /\ idx <= Len(serviceNames)
    /\ \E o \in ServiceOutcomes :
        /\ Deviates(o.img.inspect /\ o.img.pull = "ok" /\ o.img.reinspect /\ o.rm /\ o.create = "ok" /\ o.start)
        /\ LET r == createFromServiceDescription(World("createServices"), services, linksMap,
                                                 serviceNames[idx], o)
           IN  TurnDone(r.w) /\ services' = r.services /\ linksMap' = r.linksMap
    /\ UNCHANGED <<cfg, watchVars, networks, scrub, client, builds, devices, links, serviceNames, trace, stages,
                   cleanups, tasks, waits, stageResults, buildContainer>>

\* createServices: waitForServices starts one goroutine per service, unless
\* the timeout is negative or there is no service
WaitForServices ==
    /\ pc = "service"
    /\ idx > Len(serviceNames)
    /\ waits' = IF waitForServicesTimeout > 0 /\ Len(services) > 0
                THEN [i \in 1..Len(services) |-> "pending"] ELSE <<>>
    /\ pc' = "waiting"
    /\ Note("waitForServices", "")
    /\ UNCHANGED <<cfg, watchVars, networks, scrub, daemonVars, execVars, idx, stages, cleanups, tasks, prepareResult,
                   stageResults, buildContainer, created, faults>>

\* a variant of WaitForServiceContainer in which a failed health check makes
\* Prepare return its error (C11 must fail on it)
WaitForServiceContainerFailsPrepare(i) ==
    /\ pc = "waiting"
    /\ waits[i] = "pending"
    /\ \E o \in HealthOutcomes :
        /\ Deviates(o.run = "exit0" /\ o.rm)
        /\ LET w == runServiceHealthCheckContainer(World("waitForServices"), services[i], o)
           IN  /\ Commit(w)
               /\ IF w.err # "" THEN PrepareFails ELSE UNCHANGED <<pc, prepareResult>>
    /\ waits' = [waits EXCEPT ![i] = "done"]
    /\ UNCHANGED <<cfg, watchVars, networks, scrub, client, builds, services, devices, links, linksMap, serviceNames,
                   trace, idx, stages, cleanups, tasks>>
    /\ UNCHANGED <<stageResults, buildContainer>>

\* one goroutine of waitForServices: waitForServiceContainer, which writes
\* the error of runServiceHealthCheckContainer to the build trace as a warning
WaitForServiceContainer(i) ==
    /\ pc = "waiting"
    /\ waits[i] = "pending"
    /\ \E o \in HealthOutcomes :
        /\ Deviates(o.run = "exit0" /\ o.rm)
        /\ LET w == runServiceHealthCheckContainer(World("waitForServices"), services[i], o)
           IN  /\ Commit(w)
               /\ trace' = IF w.err # ""
                           THEN Append(trace, [warning |-> services[i].name, err |-> w.err])
                           ELSE trace
    /\ waits' = [waits EXCEPT ![i] = "done"]
    /\ UNCHANGED <<cfg, watchVars, networks, scrub, client, builds, services, devices, links, linksMap, serviceNames,
                   pc, idx, stages, cleanups, tasks, prepareResult, stageResults, buildContainer>>

\* a variant of BuildServiceLinks that does not wait for the goroutines of
\* waitForServices (C25 must fail on it)
BuildServiceLinksEarly ==
    /\ pc = "waiting"
    /\ \E inspectOk \in [1..Len(linksMap) -> BOOLEAN] :
        /\ Deviates(\A i \in 1..Len(linksMap) : inspectOk[i])
        /\ links' = buildServiceLinks(containers, linksMap, inspectOk)
    /\ pc' = "uservols"
    /\ idx' = 1
    /\ waits' = <<>>
    /\ Note("buildServiceLinks", "")
    /\ UNCHANGED <<cfg, watchVars, networks, scrub, daemonVars, client, failures, builds, services, caches, binds,
                   volumesFrom, devices, linksMap, serviceNames, trace, stages, cleanups,
                   tasks, prepareResult, stageResults, buildContainer, created>>

\* createServices: wg.Wait() returned; buildServiceLinks
BuildServiceLinks ==
    /\ pc = "waiting"
    /\ \A i \in 1..Len(waits) : waits[i] = "done"
    /\ \E inspectOk \in [1..Len(linksMap) -> BOOLEAN] :
        /\ Deviates(\A i \in 1..Len(linksMap) : inspectOk[i])
        /\ links' = buildServiceLinks(containers, linksMap, inspectOk)
    /\ pc' = "uservols"
    /\ idx' = 1
    /\ waits' = <<>>
    /\ Note("buildServiceLinks", "")
    /\ UNCHANGED <<cfg, watchVars, networks, scrub, daemonVars, client, failures, builds, services, caches, binds,
                   volumesFrom, devices, linksMap, serviceNames, trace, stages, cleanups,
                   tasks, prepareResult, stageResults, buildContainer, created>>

\* createUserVolumes: one turn of the loop over Config.Docker.Volumes
CreateUserVolume ==
    /\ pc = "uservols"
    /\ idx <= Len(cfg.volumes)
    /\ \E o \in VolumeOutcomes :
        /\ Deviates(o.inspect /\ o.rm /\ o.cv = "ok")
        /\ TurnDone(addVolume(World("createUserVolumes"), cfg.volumes[idx], o))
    /\ UNCHANGED <<cfg, watchVars, networks, scrub, client, builds, services, devices, links, linksMap, serviceNames,
                   trace, stages, cleanups, tasks, waits, stageResults, buildContainer>>

\* createDependencies and Prepare return nil
PrepareReturns ==
    /\ pc = "uservols"
    /\ idx > Len(cfg.volumes)
    /\ pc' = "prepared"
    /\ prepareResult' = "ok"
    /\ Note("Prepare", "")
    /\ UNCHANGED <<cfg, watchVars, networks, scrub, daemonVars, execVars, idx, stages, cleanups, tasks, waits,
                   stageResults, buildContainer, created, faults>>

(***************************************************************************)
(* Run: one stage is a createContainer call and, when it succeeded, a      *)
(* watchContainer call on the container it returned.                       *)
(***************************************************************************)
\* the outcomes of watchContainer
WatchOutcomes ==
    {"attach_err", "start_err", "exit0", "exitN", "Aborted", "stream_err", "wait_err"}

\* executor.watchContainer, by its result: what it returns and the state it
\* leaves the container in
watchContainer(w, id, o) ==
    IF o = "attach_err" THEN [w EXCEPT !.err = "error"]
    ELSE IF o = "start_err" THEN [Log(w, "start", id, <<>>) EXCEPT !.err = "error"]
    ELSE [Log(w, "start", id, <<>>) EXCEPT
            !.cs[id].running = o = "wait_err",
            !.err = IF o = "exit0" THEN ""
                    ELSE IF o = "exitN" THEN "BuildError"
                    ELSE IF o = "Aborted" THEN "Aborted" ELSE "error"]

\* a stage's createContainer: the stage ends with its error, or goes on to
\* watch the container
CreateContainer ==
    /\ pc = "prepared"
    /\ stages < MaxStages
    /\ \E o \in ContainerOutcomes :
        /\ Deviates(o.img.inspect /\ o.img.pull = "ok" /\ o.img.reinspect /\ o.rm /\ o.create = "ok"
                    /\ o.inspect)
        /\ LET w == createContainer(World("createContainer"), "build", getImageName.image, o)
           IN  /\ Commit(w)
               /\ IF w.err # ""
                  THEN /\ stageResults' = Append(stageResults, "error")
                       /\ UNCHANGED <<pc, buildContainer>>
                  ELSE pc' = "watch" /\ buildContainer' = w.ret /\ UNCHANGED stageResults
    /\ stages' = stages + 1
    /\ UNCHANGED <<cfg, watchVars, networks, scrub, client, builds, services, devices, links, linksMap, serviceNames,
                   trace, idx, cleanups, tasks, waits, prepareResult>>

\* a stage's watchContainer
WatchContainer ==
    /\ pc = "watch"
    /\ \E o \in WatchOutcomes :
        /\ Deviates(o = "exit0")
        /\ LET w == watchContainer(World("watchContainer"), buildContainer, o)
           IN  /\ Commit(w)
               /\ stageResults' = Append(stageResults, IF w.err = "" THEN "ok" ELSE "error")
    /\ pc' = "prepared"
    /\ buildContainer' = 0
    /\ UNCHANGED <<cfg, watchVars, networks, scrub, client, builds, services, devices, links, linksMap, serviceNames,
                   trace, idx, stages, cleanups, tasks, waits, prepareResult>>

(***************************************************************************)
(* The daemon's side: a service container's process exits by itself.       *)
(* The executor reads a service's state only when it builds the links, so  *)
(* the model lets the services exit right before that and at no other time.*)
(***************************************************************************)
ServiceExits(i) ==
    /\ pc = "waiting"
    /\ \A j \in 1..Len(waits) : waits[j] = "done"
    /\ services[i].id \in DOMAIN containers
    /\ containers[services[i].id].running
    /\ Deviates(FALSE)
    /\ containers' = [containers EXCEPT ![services[i].id].running = FALSE]
    /\ UNCHANGED <<cfg, watchVars, networks, scrub, images, nextId, execVars, pc, idx, stages, cleanups, tasks, waits,
                   prepareResult, stageResults, buildContainer, histVars>>

(***************************************************************************)
(* Cleanup.  The caller calls it after Prepare returned, between or after  *)
(* the stages.                                                             *)
(***************************************************************************)
\* a variant of CleanupIds without the loop over the services (C5 must fail
\* on it)
CleanupIdsWithoutServices == failures \o caches

\* a variant of CleanupIds that also visits volumesFrom (C6 must fail on it)
CleanupIdsWithVolumesFrom ==
    failures \o [i \in 1..Len(services) |-> services[i].id] \o caches \o volumesFrom

\* the IDs Cleanup starts a removal goroutine for, in the order of its loops
CleanupIds ==
    failures \o [i \in 1..Len(services) |-> services[i].id] \o caches
    \o [i \in 1..Len(builds) |-> builds[i].id]

\* executor.Cleanup up to wg.Wait(): the removal goroutines are started
CleanupStart ==
    /\ pc \in {"failed", "prepared", "cleaned"}
    /\ cleanups < MaxCleanups
    /\ cleanups' = cleanups + 1
    /\ tasks' = [i \in 1..Len(CleanupIds) |-> [id |-> CleanupIds[i], st |-> "pending"]]
    /\ pc' = "cleanup"
    /\ Note("Cleanup", "")
    /\ UNCHANGED <<cfg, watchVars, networks, scrub, daemonVars, execVars, idx, stages, waits, prepareResult,
                   stageResults, buildContainer, created, faults>>

\* one goroutine of Cleanup: removeContainer(id); wg.Done()
CleanupRemove(i) ==
    /\ pc = "cleanup"
    /\ tasks[i].st = "pending"
    /\ \E ok \in BOOLEAN :
        /\ Deviates(ok)
        /\ containers' = removeContainer(World("Cleanup"), ById(tasks[i].id), ok).cs
        /\ tasks' = [tasks EXCEPT ![i].st = IF ok /\ tasks[i].id \in DOMAIN containers
                                            THEN "removed" ELSE "failed"]
    /\ UNCHANGED <<cfg, watchVars, networks, scrub, images, nextId, execVars, pc, idx, stages, cleanups, waits,
                   prepareResult, stageResults, buildContainer, histVars>>

\* wg.Wait() returned; the client is closed
CleanupReturns ==
    /\ pc = "cleanup"
    /\ \A i \in 1..Len(tasks) : tasks[i].st # "pending"
    /\ client' = IF client # "nil" THEN "closed" ELSE client
    /\ pc' = "cleaned"
    /\ UNCHANGED <<cfg, watchVars, networks, scrub, daemonVars, failures, builds, services, caches, binds, volumesFrom,
                   devices, links, linksMap, serviceNames, trace, idx, stages, cleanups,
                   tasks, waits, prepareResult, stageResults, buildContainer, histVars, faults>>

Next ==
    \/ PrepareBegin
    \/ BindDevices
    \/ CreateBuildVolume
    \/ CreateServicesBegin
    \/ CreateFromServiceDescription
    \/ WaitForServices
    \/ \E i \in 1..Len(waits) : WaitForServiceContainer(i)
    \/ BuildServiceLinks
    \/ CreateUserVolume
    \/ PrepareReturns
    \/ CreateContainer
    \/ WatchContainer
    \/ \E i \in 1..Len(services) : ServiceExits(i)
    \/ CleanupStart
    \/ \E i \in 1..Len(tasks) : CleanupRemove(i)
    \/ CleanupReturns

Spec == Init /\ [][Next]_vars

(***************************************************************************)
(* Properties of the lifecycle.                                            *)
(***************************************************************************)
\* the IDs registered in failures, services, caches and builds
Registered ==
    {failures[i] : i \in 1..Len(failures)} \cup {services[i].id : i \in 1..Len(services)}
    \cup {caches[i] : i \in 1..Len(caches)} \cup {builds[i].id : i \in 1..Len(builds)}

\* the IDs the ContainerCreate calls of the operation that ran last returned
CreatedLast == {calls[i].id : i \in {j \in 1..Len(calls) : calls[j].op = "create"}} \ {0}

\* C1: in every reachable state, every container ID a ContainerCreate call
\* returned (with or without an error) is in failures, builds, services or
\* caches.
C1_CreatedIdsRegistered == created \subseteq Registered

\* C2: in a run in which Prepare and the stage's container succeeded and no
\* daemon call failed, once Cleanup has returned no container the run
\* created is left on the daemon.
C2_NothingLeftAfterCleanup ==
    (/\ pc = "cleaned"
     /\ prepareResult = "ok"
     /\ stageResults = <<"ok">>
     /\ faults = 0)
    => created \cap DOMAIN containers = {}

\* C3: when addCacheVolume finds the cache container by name and its Volumes
\* contain the requested path, it issues no removal and no create, and
\* appends the ID found to volumesFrom.
C3_FreshCacheReused ==
    (/\ last.cache.called
     /\ last.cache.found # 0
     /\ last.cache.path \in last.cache.vols)
    => /\ \A i \in 1..Len(calls) : calls[i].op \notin {"remove", "create"}
       /\ volumesFrom # <<>>
       /\ volumesFrom[Len(volumesFrom)] = last.cache.found

\* C4: when addCacheVolume finds the cache container by name and its Volumes
\* lack the requested path, it removes the container found and then creates
\* a new cache container for the path, each exactly once.
C4_StaleCacheRecreated ==
    (/\ last.cache.called
     /\ last.cache.found # 0
     /\ last.cache.path \notin last.cache.vols)
    => \E i, j \in 1..Len(calls) :
        /\ i < j
        /\ calls[i].op = "remove" /\ calls[i].id = last.cache.found
        /\ calls[j].op = "create" /\ calls[j].name = CacheContainerName(last.cache.path)
        /\ \A k \in 1..Len(calls) : calls[k].op = "remove" => k = i
        /\ \A k \in 1..Len(calls) : calls[k].op = "create" => k = j

\* C5: Cleanup starts a removal for every registered ID; every removal not
\* yet returned can run whatever the others did (they are concurrent, and a
\* failed one stops none); the client is closed only once every removal has
\* returned, and it is closed when Cleanup has returned.
C5_CleanupRemovesAllThenCloses ==
    /\ [](pc \in {"cleanup", "cleaned"}
            => \A id \in Registered : \E i \in 1..Len(tasks) : tasks[i].id = id)
    /\ [](pc = "cleanup"
            => /\ \A i \in 1..Len(tasks) : tasks[i].st = "pending" => ENABLED CleanupRemove(i)
               /\ (\A i \in 1..Len(tasks) : tasks[i].st # "pending") => ENABLED CleanupReturns)
    /\ [][(pc = "cleanup" /\ client' # client)
            => /\ client' = "closed"
               /\ \A i \in 1..Len(tasks) : tasks[i].st # "pending"]_vars
    /\ [](pc = "cleaned" => client # "open" /\ \A i \in 1..Len(tasks) : tasks[i].st # "pending")

\* Cleanup returned and closed the client although its first removal failed,
\* and the removal after it was carried out
C5_Witness ==
    /\ pc = "cleaned"
    /\ client = "closed"
    /\ Len(tasks) >= 2
    /\ tasks[1].st = "failed"
    /\ tasks[2].st = "removed"

\* a step of a Cleanup that follows a completed Cleanup
SecondCleanup == (cleanups >= 1 /\ pc = "cleaned") \/ (cleanups >= 2 /\ pc = "cleanup")

\* C6 as stated: a second Cleanup changes neither the daemon's containers nor
\* the executor state.
C6_SecondCleanupNoOp ==
    [][SecondCleanup => containers' = containers /\ execVars' = execVars]_vars

\* C6, amended: a second Cleanup leaves the executor state unchanged and
\* issues the removals again, so the only change it can make to the daemon is
\* to remove registered containers that outlived the first Cleanup; it is a
\* no-op when none did.
C6_SecondCleanupOnlyRetries ==
    [][SecondCleanup
        => /\ execVars' = execVars
           /\ DOMAIN containers' \subseteq DOMAIN containers
           /\ \A id \in DOMAIN containers' : containers'[id] = containers[id]
           /\ (DOMAIN containers \ DOMAIN containers') \subseteq Registered
           /\ (Registered \cap DOMAIN containers = {} => containers' = containers)]_vars

\* the second Cleanup returned after it removed a container that the first
\* Cleanup had failed to remove
C6_Witness ==
    /\ cleanups = 2
    /\ pc = "cleaned"
    /\ \E i \in 1..Len(tasks) : tasks[i].st = "removed"

\* C7: with pull policy never, getDockerImage leaves what the inspect left
\* (its result, its error, and no other daemon call), whatever the daemon
\* answers and whether or not the image is present; no operation pulls.
C7_NeverPolicyNeverPulls ==
    cfg.pullPolicy = "never"
    => /\ \A o \in ImageOutcomes : \A imageName \in {<<"alpine">>, SvcPostgres, SvcRedis} :
            getDockerImage(World("getDockerImage"), imageName, o)
                = ImageInspect(World("getDockerImage"), imageName, o.inspect)
       /\ \A i \in 1..Len(calls) : calls[i].op # "pull"

\* with policy never and the image absent, the service's creation failed with
\* the inspect error, all daemon calls succeeding
C7_Witness ==
    /\ cfg.pullPolicy = "never"
    /\ ImageIdOf(SvcPostgres) \notin images
    /\ last.op = "createServices"
    /\ last.err # ""
    /\ faults = 0

\* the place of a dependency step in createDependencies (0: not a step)
StepRank(op) ==
    CASE op = "bindDevices" -> 1
      [] op = "createBuildVolume" -> 2
      [] op \in {"getServiceNames", "createServices", "waitForServices", "buildServiceLinks"} -> 3
      [] op = "createUserVolumes" -> 4
      [] OTHER -> 0

\* the error a step returned to createDependencies; a health check's error is
\* a warning, not an error of the step
StepErr(l) == IF l.op = "waitForServices" THEN "" ELSE l.err

\* C8: a dependency step runs only when Prepare has not returned and the step
\* before it returned no error, in the order devices, project volume,
\* services, user volumes; a failing step makes Prepare return the error, and
\* after that nothing but Cleanup's removals touches the daemon or the
\* executor's accumulators.
C8_StepsInOrder ==
    [][/\ (StepRank(last'.op) > 0 /\ <<last', calls'>> # <<last, calls>>)
            => /\ StepErr(last) = ""
               /\ prepareResult = ""
               /\ IF StepRank(last'.op) \in {1, 2} \/ StepRank(last.op) = 0
                  THEN StepRank(last'.op) = StepRank(last.op) + 1
                  ELSE StepRank(last'.op) \in {StepRank(last.op), StepRank(last.op) + 1}
               /\ (StepRank(last.op) = 0 => last.op = "Prepare")
               /\ (StepErr(last') # "" => prepareResult' = "error")
       /\ prepareResult = "error"
            => /\ UNCHANGED <<failures, services, caches, binds, volumesFrom, devices, links,
                              images, nextId, created>>
               /\ (containers' # containers => pc = "cleanup")
               /\ (UNCHANGED <<last, calls>> \/ (StepRank(last'.op) = 0 /\ calls' = <<>>))]_vars

\* the service step failed in a run that has user volumes: Prepare returned
\* and the user volumes were never started
C8_Witness ==
    /\ pc = "failed"
    /\ last.op = "createServices"
    /\ last.err # ""
    /\ calls # <<>>
    /\ cfg.volumes # <<>>

\* C9: when Prepare returns an error, every container that an earlier step of
\* that Prepare created and that is still on the daemon is registered in
\* failures, services, caches or builds.
C9_EarlierResourcesRegistered ==
    (pc = "failed" /\ prepareResult = "error")
    => ((created \ CreatedLast) \cap DOMAIN containers) \subseteq Registered

\* a step of one of waitForServices' goroutines: the health check of the
\* i-th service returned
HealthCheckReturns(i) ==
    /\ pc = "waiting"
    /\ i \in 1..Len(waits)
    /\ waits[i] = "pending"
    /\ waits' = [waits EXCEPT ![i] = "done"]

\* C11: a health check that times out or exits non-zero writes a warning to
\* the trace and changes nothing else of the run: Prepare has not failed,
\* every other service's health check can still run, the links are built
\* once all returned, and Prepare then goes on with the user volumes and can
\* return nil after the last of them; Prepare never returns an error of a
\* health check.
C11_HealthCheckOnlyWarns ==
    /\ [][\A i \in 1..Len(waits) :
            (HealthCheckReturns(i) /\ last'.err \in {"timeout", "BuildError"})
            => /\ pc' = "waiting"
               /\ prepareResult' = ""
               /\ trace' = Append(trace, [warning |-> services[i].name, err |-> last'.err])
               /\ UNCHANGED <<services, linksMap, links, failures>>]_vars
    /\ [](pc = "waiting"
            => /\ \A i \in 1..Len(waits) :
                    waits[i] = "pending" => ENABLED WaitForServiceContainer(i)
               /\ (\A i \in 1..Len(waits) : waits[i] = "done") => ENABLED BuildServiceLinks)
    /\ [][(pc = "waiting" /\ pc' # "waiting")
            => pc' = "uservols" /\ prepareResult' = "" /\ idx' = 1]_vars
    /\ [](pc = "uservols" => idx <= Len(cfg.volumes) \/ ENABLED PrepareReturns)
    /\ [](prepareResult = "error" => last.op # "waitForServices")

\* Prepare returned nil with the links built although a health check timed
\* out and another service was waited for
C11_Witness ==
    /\ pc = "prepared"
    /\ prepareResult = "ok"
    /\ Len(services) = 2
    /\ \E i \in 1..Len(trace) : trace[i].err = "timeout"
    /\ links # <<>>

\* the link names the reference parser derives for the k-th declared service
LinkNamesOf(k) == splitServiceAndVersion(serviceNames[k]).linkNames

\* the containers of the k-th declared service
ServiceIdsOf(k) ==
    {services[j].id : j \in {i \in 1..Len(services) :
        services[i].name
            = ServiceContainerName(splitServiceAndVersion(serviceNames[k]).service)}}

\* the step in which createServices builds the links
LinksBuilt == pc = "waiting" /\ pc' = "uservols"

TwoPartVolumes == {i \in 1..Len(cfg.volumes) : Len(Split(cfg.volumes[i])) = 2}

\* createUserVolumes handles a two-part volume string
TwoPartVolumeAdded ==
    /\ pc = "uservols" /\ idx \in TwoPartVolumes
    /\ idx' = idx + 1

\* createContainer built its host config after a successful Prepare
HostConfigBuilt == last.op = "createContainer" /\ last.host.made /\ prepareResult = "ok"

\* C13 as stated: the host config createContainer builds after a successful
\* Prepare holds, for every two-part volume string, the bind of exactly its
\* host path and container path, and no cache container is created for it.
C13_ExactBindInHostConfig ==
    /\ [](HostConfigBuilt
            => \A i \in TwoPartVolumes :
                \E b \in 1..Len(last.host.Binds) : last.host.Binds[b] = cfg.volumes[i])
    /\ [][TwoPartVolumeAdded
            => calls' = <<>> /\ UNCHANGED <<containers, created, caches, volumesFrom>>]_vars

\* C13, amended: the bind's container side is the declared container path
\* made absolute: the path itself when it is absolute, the path under the
\* full project directory when it is relative.
C13_AbsoluteBindInHostConfig ==
    /\ [](HostConfigBuilt
            => \A i \in TwoPartVolumes :
                \E b \in 1..Len(last.host.Binds) :
                    last.host.Binds[b]
                        = ColonJoin(Split(cfg.volumes[i])[1],
                                    IF IsAbs(Split(cfg.volumes[i])[2])
                                    THEN Split(cfg.volumes[i])[2]
                                    ELSE PathJoin(cfg.fullProjectDir, Split(cfg.volumes[i])[2])))
    /\ [][TwoPartVolumeAdded
            => calls' = <<>> /\ UNCHANGED <<containers, created, caches, volumesFrom>>]_vars

\* the build container was created with the binds of a relative and of an
\* absolute container path
C13_Witness ==
    /\ HostConfigBuilt
    /\ last.err = ""
    /\ cfg.volumes = <<VolHostRel, VolHost>>
    /\ last.host.Binds = << <<"/", "host", ":", "/", "builds", "/", "proj", "/", "data">>,
                            <<"/", "host", ":", "/", "data">> >>

\* C14: once Prepare has run on a configuration without a Docker section, it
\* has returned an error (it has not crashed) and no container was created.
C14_NoDockerSectionIsError ==
    (~cfg.hasDocker /\ pc # "start")
    => prepareResult = "error" /\ created = {} /\ DOMAIN containers = {}

\* C15: with the PowerShell shell (and a Docker section to read the volumes
\* from), once Prepare has run it has returned an error, the runtime client
\* was never connected, no container was created, and failures, builds,
\* services, caches, binds and volumesFrom are empty.
C15_PassFileShellRejected ==
    (cfg.shell = "powershell" /\ cfg.hasDocker /\ pc # "start")
    => /\ prepareResult = "error"
       /\ client = "nil"
       /\ created = {}
       /\ failures = <<>> /\ builds = <<>> /\ services = <<>> /\ caches = <<>>
       /\ binds = <<>> /\ volumesFrom = <<>>

\* Prepare returned its error for the PowerShell shell with the runtime
\* client still unset
C15_Witness ==
    /\ cfg.shell = "powershell"
    /\ pc = "failed"
    /\ prepareResult = "error"
    /\ last.op = "Prepare"
    /\ client = "nil"

\* C16: when a declared service's reference does not match the reference
\* grammar, createServices does not get past that service and Prepare does
\* not return nil.
C16_InvalidReferenceFails ==
    (\E i \in 1..Len(cfg.services) : ~ReferenceMatch(cfg.services[i]).ok)
    => pc \notin {"waiting", "uservols", "prepared"} /\ prepareResult # "ok"

\* the names, allow-lists and internal lists the verification is checked on
VerifiedNames == {<<"alpine">>, <<"ruby">>, <<"registry", "/", "ruby">>, <<"registry", "/", "a", "/", "b">>}
VerifiedAllowLists == {<<>>, <<GlobRegistry>>, <<<<"ruby">>, GlobRegistry>>, <<<<"*">>>>}
VerifiedInternalLists == {<<>>, <<<<"alpine">>>>, <<<<"postgres">>, <<"ruby">>>>}

\* C17: verifyAllowedImage passes iff the allow-list is empty, or one of its
\* globs matches the name, or the name is an entry of the internal list, and
\* otherwise returns the invalid-image error; when the job's image fails the
\* verification, Prepare has returned that error, the runtime client was
\* never connected and nothing was created.
C17_AllowListVerification ==
    /\ pc = "start"
        => \A image \in VerifiedNames \cup {cfg.optImage, cfg.image} :
            \A allowedImages \in VerifiedAllowLists \cup {cfg.allowedImages} :
             \A internalImages \in VerifiedInternalLists \cup {<<cfg.image>>} :
                /\ verifyAllowedImage(image, allowedImages, internalImages) \in {"", "invalid image"}
                /\ verifyAllowedImage(image, allowedImages, internalImages) = ""
                    <=> \/ Len(allowedImages) = 0
                        \/ \E i \in 1..Len(allowedImages) : GlobMatch(allowedImages[i], image)
                        \/ \E i \in 1..Len(internalImages) : internalImages[i] = image
    /\ (/\ cfg.optImage # <<>>
        /\ Len(cfg.allowedImages) # 0
        /\ \A i \in 1..Len(cfg.allowedImages) : ~GlobMatch(cfg.allowedImages[i], cfg.optImage)
        /\ cfg.optImage # cfg.image
        /\ cfg.hasDocker /\ cfg.shell # "powershell"
        /\ pc # "start")
        => /\ prepareResult = "error"
           /\ client = "nil"
           /\ created = {}
           /\ (pc = "failed" => last.op = "Prepare" /\ last.err = "invalid image")

\* Prepare returned the invalid-image error for the image ruby, which the
\* allow-list registry/* does not match, with the runtime client unset
C17_Witness ==
    /\ cfg.optImage = <<"ruby">>
    /\ cfg.allowedImages = <<GlobRegistry>>
    /\ pc = "failed"
    /\ last.err = "invalid image"
    /\ client = "nil"

\* C18: when the parent directory of the full project directory is not
\* absolute or is the root directory "/", createBuildVolume returns an error,
\* Prepare fails, and no container is ever created.
C18_BadParentDirRejected ==
    LET parentDir == PathDir(cfg.fullProjectDir)
    IN  (~IsAbs(parentDir) \/ parentDir = <<"/">>)
            => /\ created = {}
               /\ DOMAIN containers = {}
               /\ pc \notin {"services", "waiting", "uservols", "prepared"}
               /\ (last.op = "createBuildVolume" => last.err = "error" /\ prepareResult = "error")

\* the image names getDockerImage is called with: by name, by name and tag,
\* by the ID of a local image, by an ID the daemon does not know
RequestedImages ==
    {<<"alpine">>, SvcPostgres, ImageIdOf(<<"alpine">>), <<"sha256", ":", "absent">>}

\* the number of daemon calls of one kind among ev
CountOp(ev, op) == Cardinality({i \in 1..Len(ev) : ev[i].op = op})

\* C19: with pull policy always, getDockerImage pulls on every call except
\* when the local inspect succeeds and the given name is the inspected
\* image's ID; with if-not-present it pulls iff the local inspect failed, and
\* otherwise returns what the inspect returned.  An operation of a run issues
\* under always at least one pull per container it creates from a named image.
C19_PullPolicyDecidesPull ==
    /\ \A o \in ImageOutcomes : \A imageName \in RequestedImages :
        LET w == World("getDockerImage")
            inspected == ImageInspect(w, imageName, o.inspect)
            r == getDockerImage(w, imageName, o)
        IN  /\ cfg.pullPolicy = "always"
                => /\ CountOp(r.ev, "pull") = 1
                        <=> ~(inspected.err = "" /\ inspected.image = imageName)
                   /\ CountOp(r.ev, "pull") = 0 => r = inspected
                   /\ CountOp(r.ev, "pull") = 1 => r = pullDockerImage(w, imageName, o)
            /\ cfg.pullPolicy = "if-not-present"
                => /\ CountOp(r.ev, "pull") = 1 <=> inspected.err # ""
                   /\ inspected.err = "" => r = inspected
                   /\ inspected.err # "" => r = pullDockerImage(w, imageName, o)
    /\ (cfg.pullPolicy = "always" /\ last.op \in {"createServices", "createContainer"})
        => CountOp(calls, "pull") >= CountOp(calls, "create")
    /\ (cfg.pullPolicy = "if-not-present" /\ faults = 0 /\ images = AllImages)
        => CountOp(calls, "pull") = 0

\* under always, the service was created after a pull of its image although
\* the image was present locally, all daemon calls succeeding
C19_Witness ==
    /\ cfg.pullPolicy = "always"
    /\ cfg.services = <<SvcPostgres>>
    /\ ImageIdOf(SvcPostgres) \in images
    /\ last.op = "createServices"
    /\ last.err = ""
    /\ CountOp(calls, "pull") = 1
    /\ CountOp(calls, "create") = 1
    /\ faults = 0

\* a volume step of createDependencies returned an error
VolumeStepFails == pc \in {"buildvol", "uservols"} /\ pc' = "failed"

\* C23: createCacheVolume returns an ID only when create, start and wait
\* succeeded and the container exited with code 0; when create (with an ID),
\* start or wait fails, or the exit code is not 0, the container's ID is
\* appended to failures once, no ID and the error are returned, and neither
\* caches nor volumesFrom gets the ID, in createCacheVolume or in the step
\* that called it.
C23_CacheVolumeFailureRegistered ==
    /\ [](\A o \in CacheOutcomes :
          \A containerName \in {<<>>, CacheContainerName(<<"/", "cache">>)} :
            LET w == World("createCacheVolume")
                r == createCacheVolume(w, containerName, <<"/", "cache">>, o)
                new == r.cr \ w.cr
            IN  /\ r.ca = w.ca /\ r.vf = w.vf
                /\ r.err = ""
                    => /\ o = "ok"
                       /\ r.ret \in new
                       /\ ~r.cs[r.ret].running
                       /\ r.fl = w.fl
                /\ r.err # ""
                    => /\ r.ret = 0
                       /\ IF new = {} THEN r.fl = w.fl
                          ELSE \E id \in new : r.fl = Append(w.fl, id)
                /\ (o \in {"create_errid", "start_err", "wait_exitN", "wait_err"}
                        /\ IdsByName(w.cs, containerName) = {})
                    => r.err # "" /\ new # {})
    /\ [][VolumeStepFails
            => /\ caches' = caches
               /\ volumesFrom' = volumesFrom
               /\ IF created' = created THEN failures' = failures
                  ELSE \E id \in created' \ created : failures' = Append(failures, id)]_vars

\* createBuildVolume failed after its cache container was created: the
\* container is in failures, and in neither caches nor volumesFrom
C23_Witness ==
    /\ last.op = "createBuildVolume"
    /\ last.err # ""
    /\ Len(failures) = 1
    /\ failures[1] \in created
    /\ caches = <<>>
    /\ volumesFrom = <<>>

\* a goroutine of waitForServices finished
WaitTaskEnds == \E i \in 1..Len(waits) : waits[i] = "pending" /\ waits' # waits

\* C25: the service containers are created one after another and no wait runs
\* before the last was created; then, unless the timeout is negative, one
\* wait task per created service runs, the tasks ending in any order;
\* waitForServices returns and the links are built only when every task has
\* ended; and a wait task writes none of binds, volumesFrom, services,
\* caches, builds, failures and links.
C25_WaitsAfterCreationLinksAfterWaits ==
    /\ [](pc = "service" => waits = <<>> /\ links = <<>>)
    /\ [][pc = "service" /\ services' # services
            => pc' \in {"service", "failed"} /\ Len(services') = Len(services) + 1
               /\ waits' = <<>>]_vars
    /\ [](waits # <<>> => pc = "waiting" /\ idx > Len(serviceNames))
    /\ [](pc = "waiting"
            => Len(waits) = IF waitForServicesTimeout > 0 THEN Len(services) ELSE 0)
    /\ [][links' # links /\ pc = "waiting"
            => pc' = "uservols" /\ \A i \in 1..Len(waits) : waits[i] = "done"]_vars
    /\ [][pc = "waiting" /\ pc' # "waiting"
            => \A i \in 1..Len(waits) : waits[i] = "done"]_vars
    /\ [][WaitTaskEnds
            => UNCHANGED <<binds, volumesFrom, services, caches, builds, failures, links,
                           linksMap>>]_vars

\* of two services' wait tasks the second has ended and the first has not
C25_Witness ==
    /\ pc = "waiting"
    /\ Len(services) = 2
    /\ waits = <<"pending", "done">>

\* dir is the directory parent or lies below it
LiesUnder(dir, parent) ==
    /\ Len(parent) <= Len(dir)
    /\ SubSeq(dir, 1, Len(parent)) = parent
    /\ Len(dir) = Len(parent) \/ dir[Len(parent) + 1] = "/"

\* the root directory lies under the container side of a declared host bind
RootDirHostMounted ==
    \E i \in 1..Len(cfg.volumes) :
        \E c \in 1..Len(cfg.volumes[i]) :
            /\ cfg.volumes[i][c] = ":"
            /\ LiesUnder(cfg.rootDir, SubSeq(cfg.volumes[i], c + 1, Len(cfg.volumes[i])))

\* createBuildVolume ran on an absolute parent directory
BuildVolumeStep == pc = "buildvol" /\ pc' # "buildvol" /\ IsAbs(PathDir(cfg.fullProjectDir))

\* C26: createBuildVolume does nothing when the root directory lies under the
\* container side of a declared host bind.  Otherwise, with strategy fetch
\* and the cache enabled, it takes the persistent path (a bind of the cache
\* directory on the host, or the container named after the project and the
\* parent directory) and adds nothing to caches.  In every other case it
\* creates an unnamed cache container and, when that succeeds, adds its ID to
\* caches and to volumesFrom.
C26_BuildVolumeCases ==
    [][BuildVolumeStep
        => LET parentDir == PathDir(cfg.fullProjectDir)
               new == created' \ created
           IN  IF RootDirHostMounted
               THEN /\ calls' = <<>> /\ pc' = "services"
                    /\ UNCHANGED <<containers, created, caches, volumesFrom, binds, failures>>
               ELSE IF cfg.gitStrategy = "fetch" /\ ~cfg.disableCache
               THEN /\ caches' = caches
                    /\ \A id \in new : containers'[id].name = CacheContainerName(parentDir)
                    /\ IF cfg.cacheDir # <<>>
                       THEN /\ calls' = <<>> /\ pc' = "services"
                            /\ Len(binds') = Len(binds) + 1
                            /\ volumesFrom' = volumesFrom
                       ELSE /\ binds' = binds
                            /\ \E i \in 1..Len(calls') : calls'[i].op = "inspect"
                            /\ pc' = "services"
                                => /\ Len(volumesFrom') = Len(volumesFrom) + 1
                                   /\ containers'[volumesFrom'[Len(volumesFrom')]].name
                                        = CacheContainerName(parentDir)
               ELSE /\ binds' = binds
                    /\ \A i \in 1..Len(calls') : calls'[i].op # "inspect"
                    /\ \A id \in new : containers'[id].name = <<>>
                    /\ IF pc' = "services"
                       THEN \E id \in new :
                            /\ caches' = Append(caches, id)
                            /\ volumesFrom' = Append(volumesFrom, id)
                       ELSE caches' = caches /\ volumesFrom' = volumesFrom]_vars

\* with strategy clone and no host bind above the root directory, an unnamed
\* cache container was created and is in caches and volumesFrom
C26_Witness ==
    /\ last.op = "createBuildVolume"
    /\ pc = "services"
    /\ cfg.gitStrategy = "clone"
    /\ ~RootDirHostMounted
    /\ Len(caches) = 1
    /\ volumesFrom = caches
    /\ containers[caches[1]].name = <<>>

\* the credentials a source holds for a registry
AuthOf(source, indexName) == {a \in source : a.ServerAddress = indexName}

\* r is what the claim lets the resolver return for imageName from the
\* sources of c
FirstSourceWins(c, imageName, r) ==
    LET indexName == IF Len(imageName) > 2 /\ imageName[2] = "/"
                        /\ imageName[1] \in {"registry.example.com", "localhost"}
                     THEN imageName[1] ELSE "docker.io"
        user == AuthOf(c.dockerAuthConfig, indexName)
        home == AuthOf(c.homeAuthConfigs, indexName)
        build == {i \in 1..Len(c.credentials) :
                    c.credentials[i].Type = "registry" /\ c.credentials[i].URL = indexName}
    IN  /\ user # {} => r # <<>> /\ r[1] \in user
        /\ (user = {} /\ home # {}) => r # <<>> /\ r[1] \in home
        /\ (user = {} /\ home = {} /\ build # {})
            => /\ r # <<>>
               /\ r[1].ServerAddress = indexName
               /\ \E i \in build : r[1].Username = c.credentials[i].Username
        /\ (user = {} /\ home = {} /\ build = {}) => r = <<>>

\* the sources the resolver is checked on
AuthCases ==
    [dockerAuthConfig : {{}, {[ServerAddress |-> "docker.io", Username |-> "user"]},
                         {[ServerAddress |-> "localhost", Username |-> "user"]}},
     homeAuthConfigs : {{}, {[ServerAddress |-> "docker.io", Username |-> "home"]},
                        {[ServerAddress |-> "docker.io", Username |-> "home"],
                         [ServerAddress |-> "localhost", Username |-> "home2"]}},
     credentials : {<<>>,
                    <<[Type |-> "git", URL |-> "docker.io", Username |-> "git"]>>,
                    <<[Type |-> "registry", URL |-> "docker.io", Username |-> "job"]>>,
                    <<[Type |-> "registry", URL |-> "localhost", Username |-> "job2"],
                      [Type |-> "git", URL |-> "docker.io", Username |-> "git"],
                      [Type |-> "registry", URL |-> "docker.io", Username |-> "job"]>>}]

\* C27: getAuthConfig returns the match of the first of the three sources
\* (the build's user configuration, the home directory's, the build's
\* credentials of type registry) that has one for the image's registry, and
\* nil only when none has; every pull carries the credential so resolved.
C27_FirstSourceWins ==
    /\ pc = "start"
        => \A c \in AuthCases \cup {cfg} :
            \A imageName \in {<<"alpine">>, SvcPostgres, <<"localhost", "/", "app">>} :
                FirstSourceWins(c, imageName, getAuthConfig(c, imageName))
    /\ \A i \in 1..Len(calls) :
        calls[i].op = "pull" => FirstSourceWins(cfg, calls[i].name, calls[i].auth)

\* the user configuration has no credential for docker.io, the home
\* directory's and the build's have: the image was pulled with the home
\* directory's
C27_Witness ==
    /\ AuthOf(cfg.dockerAuthConfig, "docker.io") = {}
    /\ cfg.dockerAuthConfig # {}
    /\ cfg.credentials # <<>>
    /\ \E i \in 1..Len(calls) :
        /\ calls[i].op = "pull"
        /\ calls[i].auth = <<[ServerAddress |-> "docker.io", Username |-> "home"]>>

\* C28: when the job declares an image and Prepare got past the image check
\* (the runtime client is connected), the variable-expanded name that
\* getImageName returned passes the allow-list verification itself.
C28_ReturnedImageVerified ==
    (cfg.optImage # <<>> /\ client # "nil")
        => /\ getImageName.err = ""
           /\ verifyAllowedImage(getImageName.image, cfg.allowedImages, <<cfg.image>>) = ""

(***************************************************************************)
(* watchContainer, step by step: its thread of control, the three          *)
(* goroutines it starts, the container's process and the abort signal.     *)
(* The lifecycle's variables stay as a new executor's.                     *)
(*                                                                         *)
(* The select of line 857 is entered at "select": a case that can proceed  *)
(* is taken, any one of them when there are several; when none can, the    *)
(* thread parks ("parked"), and the first close of abort or send on        *)
(* attachCh or waitCh wakes it with that case taken and the value handed   *)
(* over.                                                                   *)
(***************************************************************************)
InitWatch ==
    /\ cfg = DefaultConfig
    /\ containers = <<>>
    /\ images = AllImages
    /\ NewExecutor
    /\ WatchAt("attach", "created")
    /\ networks = <<>> /\ scrub = NoScrub

\* what the steps of watchContainer leave alone
WatchFrame == UNCHANGED <<cfg, daemonVars, execVars, ctlVars, histVars, faults, networks, scrub>>

\* lines 819-855: ContainerAttach and ContainerStart; an error of either is
\* returned; after them the goroutines run
WatchAttachStart ==
    /\ wpc = "attach"
    /\ \E o \in {"attach_err", "start_err", "ok"} :
        IF o = "ok" /\ cont = "created"
        THEN /\ wpc' = "select"
             /\ cont' = "running"
             /\ streams' = [g \in {"reader", "writer"} |-> "copying"]
             /\ waiter' = "polling"
             /\ UNCHANGED wresult
        ELSE /\ wpc' = "returned"
             /\ wresult' = "error"
             /\ UNCHANGED <<cont, streams, waiter>>
    /\ UNCHANGED <<wcase, aborted, attachCh, waitCh, retries, kills, abortedWaiting, waited>>
    /\ WatchFrame

\* a variant of StreamEnds in which a goroutine sends its error twice (C29
\* must fail on it)
StreamEndsSendsTwice(g) ==
    /\ streams[g] = "copying"
    /\ streams' = [streams EXCEPT ![g] = "done"]
    /\ \E err \in BOOLEAN :
        IF err /\ wpc = "parked"
        THEN wcase' = "attach" /\ wpc' = "kill" /\ attachCh' = Append(attachCh, "error")
        ELSE /\ attachCh' = IF err THEN attachCh \o <<"error", "error">> ELSE attachCh
             /\ UNCHANGED <<wpc, wcase>>
    /\ UNCHANGED <<wresult, cont, aborted, waitCh, waiter, retries, kills, abortedWaiting,
                   waited>>
    /\ WatchFrame

\* lines 836-850: the reader's StdCopy or the writer's Copy returns; an error
\* is sent to attachCh
StreamEnds(g) ==
    /\ streams[g] = "copying"
    /\ streams' = [streams EXCEPT ![g] = "done"]
    /\ \E err \in BOOLEAN :
        IF err /\ wpc = "parked"
        THEN wcase' = "attach" /\ wpc' = "kill" /\ UNCHANGED attachCh
        ELSE /\ attachCh' = IF err THEN Append(attachCh, "error") ELSE attachCh
             /\ UNCHANGED <<wpc, wcase>>
    /\ UNCHANGED <<wresult, cont, aborted, waitCh, waiter, retries, kills, abortedWaiting,
                   waited>>
    /\ WatchFrame

\* the container's process exits by itself
ContainerExits ==
    /\ cont = "running"
    /\ cont' \in {"exited0", "exitedN"}
    /\ UNCHANGED <<wpc, wcase, wresult, aborted, attachCh, waitCh, streams, waiter, retries,
                   kills, abortedWaiting, waited>>
    /\ WatchFrame

\* the container is removed from the daemon behind the executor's back
ContainerVanishes ==
    /\ cont \in {"running", "exited0", "exitedN"}
    /\ cont' = "gone"
    /\ UNCHANGED <<wpc, wcase, wresult, aborted, attachCh, waitCh, streams, waiter, retries,
                   kills, abortedWaiting, waited>>
    /\ WatchFrame

\* the abort channel is closed
Abort ==
    /\ wpc \notin {"idle", "returned"}
    /\ ~aborted
    /\ aborted' = TRUE
    /\ abortedWaiting' = (wpc = "parked" /\ cont = "running")
    /\ IF wpc = "parked" THEN wcase' = "abort" /\ wpc' = "kill" ELSE UNCHANGED <<wpc, wcase>>
    /\ UNCHANGED <<wresult, cont, attachCh, waitCh, streams, waiter, retries, kills, waited>>
    /\ WatchFrame

\* what one turn of waitForContainer's loop does on the inspect's outcome:
\* the error it returns ("": it sleeps and goes on) and its retries
waitForContainerTurn(state, n, failed) ==
    IF state = "gone" THEN [ret |-> "NotFound", retries |-> n]
    ELSE IF failed /\ n > 3 THEN [ret |-> "error", retries |-> n]
    ELSE IF failed THEN [ret |-> "", retries |-> n + 1]
    ELSE IF state = "running" THEN [ret |-> "", retries |-> 0]
    ELSE IF state = "exitedN" THEN [ret |-> "BuildError", retries |-> 0]
    ELSE [ret |-> "nil", retries |-> 0]

\* lines 852-855 and waitForContainer: one turn of the waiter's loop; what
\* waitForContainer returns is sent to waitCh
WaiterPolls ==
    /\ waiter = "polling"
    /\ \E failed \in BOOLEAN :
        LET turn == waitForContainerTurn(cont, retries, failed)
        IN  /\ retries' = turn.retries
            /\ waiter' = IF turn.ret = "" THEN "polling" ELSE "done"
            /\ IF turn.ret # "" /\ wpc = "parked"
               THEN /\ wcase' = "wait" /\ wresult' = turn.ret /\ wpc' = "returned"
                    /\ UNCHANGED waitCh
               ELSE /\ waitCh' = IF turn.ret = "" THEN waitCh ELSE Append(waitCh, turn.ret)
                    /\ UNCHANGED <<wpc, wcase, wresult>>
    /\ UNCHANGED <<cont, aborted, attachCh, streams, kills, abortedWaiting, waited>>
    /\ WatchFrame

\* line 857: no case of the select can proceed, the thread parks
SelectParks ==
    /\ wpc = "select"
    /\ ~aborted /\ attachCh = <<>> /\ waitCh = <<>>
    /\ wpc' = "parked"
    /\ UNCHANGED <<wcase, wresult, cont, aborted, attachCh, waitCh, streams, waiter, retries,
                   kills, abortedWaiting, waited>>
    /\ WatchFrame

\* line 858: the select takes `case <-abort`
SelectAbort ==
    /\ wpc = "select"
    /\ aborted
    /\ wcase' = "abort"
    /\ wpc' = "kill"
    /\ UNCHANGED <<wresult, cont, aborted, attachCh, waitCh, streams, waiter, retries, kills,
                   abortedWaiting, waited>>
    /\ WatchFrame

\* line 862: the select takes `case err = <-attachCh`
SelectAttach ==
    /\ wpc = "select"
    /\ attachCh # <<>>
    /\ attachCh' = Tail(attachCh)
    /\ wcase' = "attach"
    /\ wpc' = "kill"
    /\ UNCHANGED <<wresult, cont, aborted, waitCh, streams, waiter, retries, kills,
                   abortedWaiting, waited>>
    /\ WatchFrame

\* a variant of SelectWait that kills the container on the waiter's result
\* (C22 must fail on it)
SelectWaitKills ==
    /\ wpc = "select"
    /\ waitCh # <<>>
    /\ wcase' = "wait"
    /\ wpc' = "kill"
    /\ UNCHANGED <<wresult, cont, aborted, attachCh, waitCh, streams, waiter, retries, kills,
                   abortedWaiting, waited>>
    /\ WatchFrame

\* line 866: the select takes `case err = <-waitCh`, and watchContainer
\* returns the waiter's result
SelectWait ==
    /\ wpc = "select"
    /\ waitCh # <<>>
    /\ waitCh' = Tail(waitCh)
    /\ wcase' = "wait"
    /\ wresult' = Head(waitCh)
    /\ wpc' = "returned"
    /\ UNCHANGED <<cont, aborted, attachCh, streams, waiter, retries, kills, abortedWaiting,
                   waited>>
    /\ WatchFrame

\* killContainer, lines 756-758: the networks are disconnected and SIGKILL is
\* sent; the daemon may fail to deliver it, and the error is dropped
Kill ==
    /\ wpc = "kill"
    /\ \E ok \in BOOLEAN : cont' = IF ok /\ cont = "running" THEN "exitedN" ELSE cont
    /\ kills' = IF kills < MaxKills THEN kills + 1 ELSE kills
    /\ wpc' = "killwait"
    /\ UNCHANGED <<wcase, wresult, aborted, attachCh, waitCh, streams, waiter, retries,
                   abortedWaiting, waited>>
    /\ WatchFrame

\* a variant of KillWaited in which watchContainer returns what the waiter
\* reported (C10 must fail on it)
KillWaitedReturnsWaiter ==
    /\ wpc = "killwait"
    /\ waitCh # <<>>
    /\ waitCh' = Tail(waitCh)
    /\ waited' = Head(waitCh)
    /\ wresult' = Head(waitCh)
    /\ wpc' = "returned"
    /\ UNCHANGED <<wcase, cont, aborted, attachCh, streams, waiter, retries, kills,
                   abortedWaiting>>
    /\ WatchFrame

\* killContainer, line 763: the waiter's result arrives and killContainer
\* returns; watchContainer returns Aborted after an abort, the stream's error
\* after a stream error (lines 858-864)
KillWaited ==
    /\ wpc = "killwait"
    /\ waitCh # <<>>
    /\ waitCh' = Tail(waitCh)
    /\ waited' = Head(waitCh)
    /\ wresult' = IF wcase = "abort" THEN "Aborted" ELSE "error"
    /\ wpc' = "returned"
    /\ UNCHANGED <<wcase, cont, aborted, attachCh, streams, waiter, retries, kills,
                   abortedWaiting>>
    /\ WatchFrame

\* a variant of KillTimeout in which killContainer gives up after the second
\* (C20 must fail on it)
KillTimeoutReturns ==
    /\ wpc = "killwait"
    /\ wpc' = "returned"
    /\ wresult' = IF wcase = "abort" THEN "Aborted" ELSE "error"
    /\ UNCHANGED <<wcase, cont, aborted, attachCh, waitCh, streams, waiter, retries,
                   kills, abortedWaiting, waited>>
    /\ WatchFrame

\* killContainer, line 766: a second passed, the loop goes round
KillTimeout ==
    /\ wpc = "killwait"
    /\ wpc' = "kill"
    /\ UNCHANGED <<wcase, wresult, cont, aborted, attachCh, waitCh, streams, waiter, retries,
                   kills, abortedWaiting, waited>>
    /\ WatchFrame

NextWatch ==
    \/ WatchAttachStart
    \/ \E g \in {"reader", "writer"} : StreamEnds(g)
    \/ ContainerExits
    \/ ContainerVanishes
    \/ Abort
    \/ WaiterPolls
    \/ SelectParks
    \/ SelectAbort
    \/ SelectAttach
    \/ SelectWait
    \/ Kill
    \/ KillWaited
    \/ KillTimeout

SpecWatch == InitWatch /\ [][NextWatch]_vars

\* watchContainer under the scheduling of its thread and of the waiter's
\* goroutine: each of them takes its next step when it stays possible (a
\* sleep or a timer of one second ends), and a select that finds waitCh ready
\* round after round takes it in the end (the choice among ready cases is
\* uniformly random).  The streams, the container's process, the abort
\* signal and the daemon's answers are under no obligation.
SpecWatchFair ==
    /\ InitWatch
    /\ [][NextWatch]_vars
    /\ WF_vars(WatchAttachStart)
    /\ WF_vars(SelectParks \/ SelectAbort \/ SelectAttach \/ SelectWait)
    /\ WF_vars(Kill)
    /\ WF_vars(KillTimeout)
    /\ SF_vars(KillWaited)
    /\ WF_vars(WaiterPolls)

\* C10: when abort fires while watchContainer waits in its select on a
\* running container, the select takes the abort case, at least one SIGKILL
\* is sent before killContainer waits, and watchContainer returns Aborted
\* after killContainer received (and dropped) the waiter's result.
C10_AbortKillsAndReturnsAborted ==
    abortedWaiting
    => /\ wcase = "abort"
       /\ wpc \in {"kill", "killwait", "returned"}
       /\ (wpc \in {"killwait", "returned"} => kills >= 1)
       /\ (wpc = "returned" => wresult = "Aborted" /\ waited # "")

\* abort fired while the select waited on the running container; the
\* container was killed, the waiter reported its exit code to killContainer,
\* and watchContainer returned Aborted
C10_Witness ==
    /\ wpc = "returned"
    /\ abortedWaiting
    /\ kills >= 1
    /\ waited = "BuildError"
    /\ wresult = "Aborted"

\* killContainer is running
InKillContainer == wpc \in {"kill", "killwait"}

\* after a kill was sent, the daemon eventually reports the container as not
\* running or not found
DaemonReportsKill == [](wpc = "killwait" => <>(cont # "running"))

\* C20: killContainer goes round (disconnect and SIGKILL, then a wait of up
\* to one second for the waiter) and returns only by receiving the waiter's
\* result from waitCh; if the daemon eventually reports the killed container
\* as not running or not found, killContainer eventually returns, and
\* watchContainer with it.
C20_KillContainerReturnsOnWaiter ==
    /\ [][/\ (wpc = "kill" /\ wpc' # "kill")
              => wpc' = "killwait" /\ (kills' = kills + 1 \/ kills = MaxKills)
          /\ (wpc = "killwait" /\ wpc' # "killwait")
              => \/ wpc' = "kill" /\ waitCh' = waitCh /\ waited' = waited
                 \/ /\ wpc' = "returned"
                    /\ waiter = "done"
                    /\ waitCh # <<>>
                    /\ waited' = Head(waitCh)
                    /\ waitCh' = Tail(waitCh)]_vars
    /\ [](wpc = "returned" /\ wcase \in {"abort", "attach"} => waited # "" /\ kills >= 1)
    /\ (DaemonReportsKill => (InKillContainer ~> wpc = "returned"))

\* killContainer went round twice before the waiter's result arrived, and
\* watchContainer returned
C20_Witness ==
    /\ wpc = "returned"
    /\ wcase \in {"abort", "attach"}
    /\ kills = MaxKills
    /\ waiter = "done"
    /\ waited # ""

\* the waiter ran one turn of waitForContainer's loop
WaiterTurn == waiter = "polling" /\ (waiter' # waiter \/ retries' # retries)

\* C21: waitForContainer retries the first three inspect errors in a row and
\* returns the error on the fourth; a successful inspect resets the count;
\* Not Found is returned at once, without a retry.
C21_FourthErrorSurfaces ==
    /\ [][WaiterTurn
            => /\ retries' = retries + 1 => retries < 3 /\ waiter' = "polling"
               /\ cont = "gone" => waiter' = "done" /\ retries' = retries
               /\ (waiter' = "polling" /\ retries' # retries + 1) => retries' = 0]_vars
    /\ [](retries <= 3)

\* C22: nothing streams or waits and no SIGKILL is sent before attach and
\* start succeeded; when attach or start fails watchContainer returns the
\* error with no SIGKILL sent.  After the start, when the select takes a
\* stream's error the container is killed and the stream's error returned;
\* when it takes the waiter's result, that result is returned (nil for exit
\* code 0, BuildError for another code) and no SIGKILL is sent.
C22_WatchOrderAndResults ==
    /\ wpc = "attach"
        => /\ cont = "created" /\ waiter = "off" /\ kills = 0 /\ wcase = ""
           /\ \A g \in {"reader", "writer"} : streams[g] = "off"
           /\ attachCh = <<>> /\ waitCh = <<>>
    /\ (wpc = "returned" /\ wcase = "")
        => /\ wresult = "error" /\ kills = 0 /\ waiter = "off" /\ cont = "created"
           /\ \A g \in {"reader", "writer"} : streams[g] = "off"
    /\ wcase = "attach"
        => /\ \E g \in {"reader", "writer"} : streams[g] = "done"
           /\ wpc \in {"kill", "killwait", "returned"}
           /\ wpc \in {"killwait", "returned"} => kills >= 1
           /\ wpc = "returned" => wresult = "error"
    /\ wcase = "wait"
        => /\ wpc = "returned" /\ kills = 0 /\ waiter = "done"
           /\ wresult \in {"nil", "BuildError", "NotFound", "error"}
           /\ wresult = "nil" => cont \in {"exited0", "gone"}
           /\ wresult = "BuildError" => cont \in {"exitedN", "gone"}
           /\ cont = "exited0" => wresult \in {"nil", "error"}
           /\ cont = "exitedN" => wresult \in {"BuildError", "error"}

\* a stream failed, the container was killed and watchContainer returned the
\* stream's error
C22_Witness ==
    /\ wpc = "returned"
    /\ wcase = "attach"
    /\ wresult = "error"
    /\ kills >= 1
    /\ waited # ""

(***************************************************************************)
(* removeContainer and a round of killContainer, call by call, on a daemon *)
(* with two running containers (one named by the executor, one under a     *)
(* name of the daemon's) and two networks.  A network's Containers maps a  *)
(* container's ID to its endpoint, whose Name is the container's name;     *)
(* an endpoint can outlive its container.  The executor passes an ID       *)
(* (lines 361, 1055, 1111 and killContainer's callers) or a name (lines    *)
(* 553, 735).                                                              *)
(***************************************************************************)
InitScrub ==
    /\ cfg = DefaultConfig
    /\ containers = <<[name |-> <<"proj", "-", "postgres">>, volumes |-> {}, running |-> TRUE],
                      [name |-> <<>>, volumes |-> {}, running |-> TRUE]>>
    /\ images = AllImages
    /\ NewExecutor
    /\ WatchAt("idle", "none")
    /\ scrub = NoScrub
    /\ \E p1, p2 \in SUBSET {[id |-> 1, Name |-> <<"proj", "-", "postgres">>],
                              [id |-> 2, Name |-> <<"daemon_given">>]} :
        networks = <<[name |-> "bridge", plugged |-> p1], [name |-> "user", plugged |-> p2]>>

\* disconnectNetwork, lines 884-888: NetworkList; on its error the scrub ends
ScrubList ==
    /\ scrub.pc = "idle"
    /\ \E op \in {"kill", "remove"}, ok \in BOOLEAN :
        \E ref \in {ById(i) : i \in DOMAIN containers}
                    \cup {ByName(containers[i].name) :
                            i \in {j \in DOMAIN containers : op = "remove" /\ containers[j].name # <<>>}} :
            /\ scrub' = [pc |-> IF ok THEN "nets" ELSE "act", op |-> op, ref |-> ref,
                         nets |-> IF ok THEN networks ELSE <<>>, i |-> 1, listed |-> ok,
                         err |-> IF ok THEN "" ELSE "error"]
            /\ calls' = <<[step |-> op, op |-> "netlist", id |-> 0, name |-> <<>>]>>
    /\ UNCHANGED <<cfg, daemonVars, execVars, ctlVars, created, last, faults, watchVars, networks>>

\* disconnectNetwork, lines 890-902: one turn of the loop over netList; the
\* network is disconnected when `id == pluggedContainer.Name` for one of its
\* containers, and an error of NetworkDisconnect is only logged
ScrubNetwork ==
    /\ scrub.pc = "nets"
    /\ scrub.i <= Len(scrub.nets)
    /\ IF \E p \in scrub.nets[scrub.i].plugged : scrub.ref.id = 0 /\ scrub.ref.name = p.Name
       THEN \E ok \in BOOLEAN :
            /\ calls' = Append(calls, [step |-> scrub.op, op |-> "disconnect", id |-> 0,
                                       name |-> <<scrub.nets[scrub.i].name>>])
            /\ networks' = IF ok
                           THEN [networks EXCEPT ![scrub.i].plugged =
                                    {p \in @ : p.Name # scrub.ref.name}]
                           ELSE networks
            /\ scrub' = [scrub EXCEPT !.i = @ + 1, !.err = IF ok THEN "" ELSE "error"]
       ELSE /\ scrub' = [scrub EXCEPT !.i = @ + 1]
            /\ UNCHANGED <<calls, networks>>
    /\ UNCHANGED <<cfg, daemonVars, execVars, ctlVars, created, last, faults, watchVars>>

\* removeContainer, lines 874-880, and killContainer, lines 757-758: after the
\* scrub, whatever it returned, ContainerRemove or ContainerKill is called;
\* the daemon drops the endpoints of a container it removed or killed, or
\* leaves them behind
ScrubAct ==
    /\ scrub.pc = "act" \/ (scrub.pc = "nets" /\ scrub.i > Len(scrub.nets))
    /\ \E ok, zombie \in BOOLEAN :
        /\ IF scrub.op = "remove"
           THEN LET w == removeContainer([World("remove") EXCEPT !.ev = calls], scrub.ref, ok)
                IN  containers' = w.cs /\ calls' = w.ev
           ELSE /\ containers' = IF ok /\ scrub.ref.id \in DOMAIN containers
                                 THEN [containers EXCEPT ![scrub.ref.id].running = FALSE]
                                 ELSE containers
                /\ calls' = Append(calls, [step |-> "kill", op |-> "kill", id |-> scrub.ref.id,
                                           name |-> <<>>])
        /\ networks' = IF ok /\ ~zombie
                       THEN [k \in DOMAIN networks |->
                                [networks[k] EXCEPT !.plugged =
                                    {p \in @ : p.id \notin Resolve(containers, scrub.ref)}]]
                       ELSE networks
    /\ scrub' = [scrub EXCEPT !.pc = "idle"]
    /\ UNCHANGED <<cfg, images, nextId, execVars, ctlVars, created, last, faults, watchVars>>

NextScrub == ScrubList \/ ScrubNetwork \/ ScrubAct

SpecScrub == InitScrub /\ [][NextScrub]_vars

\* C24: every ContainerKill and ContainerRemove is preceded, in the same
\* operation, by a scrub that lists the networks and issues a disconnect for
\* each listed network that has the container attached under its name; a
\* failed list or disconnect does not prevent the kill or removal, and a
\* failed disconnect does not stop the scrub of the remaining networks.
C24_ScrubPrecedesKillAndRemove ==
    /\ [][\A j \in 1..Len(calls') :
            (calls'[j].op \in {"kill", "remove"} /\ calls' # calls)
            => /\ j > 1 /\ calls'[1].op = "netlist"
               /\ scrub.listed
                   => \A k \in 1..Len(scrub.nets) :
                        (\E p \in scrub.nets[k].plugged :
                            p.id \in Resolve(containers, scrub.ref))
                        => \E d \in 1..(j - 1) :
                            /\ calls'[d].op = "disconnect"
                            /\ calls'[d].name = <<scrub.nets[k].name>>]_vars
    /\ [][scrub.pc = "nets" /\ scrub.i <= Len(scrub.nets) => scrub'.i = scrub.i + 1]_vars
    /\ [](scrub.pc # "idle" => ENABLED (ScrubNetwork \/ ScrubAct))

\* the goroutines that have not yet sent to attachCh
Copying == {g \in {"reader", "writer"} : streams[g] = "copying"}

\* C29: no goroutine of watchContainer blocks on its send.  attachCh
\* (capacity 2) always has room for the send of every goroutine still
\* copying, and waitCh (capacity 1) is empty while the waiter has not sent,
\* before and after watchContainer returned, so each send can be taken; and
\* while killContainer runs, the waiter's result is on waitCh or yet to be
\* sent: the select never consumed it.
C29_SendsNeverBlock ==
    /\ Len(attachCh) + Cardinality(Copying) <= 2
    /\ Len(waitCh) <= 1
    /\ waiter = "polling" => waitCh = <<>>
    /\ \A g \in Copying : ENABLED StreamEnds(g)
    /\ waiter = "polling" => ENABLED WaiterPolls
    /\ wpc \in {"kill", "killwait"}
        => /\ waited = ""
           /\ waiter = "polling" \/ (waiter = "done" /\ Len(waitCh) = 1)

\* watchContainer returned Aborted, and after that both streams failed and
\* sent their errors to attachCh
C29_Witness ==
    /\ wpc = "returned"
    /\ wcase = "abort"
    /\ waited # ""
    /\ Copying = {}
    /\ Len(attachCh) = 2

(***************************************************************************)
(* runServiceHealthCheckContainer, step by step: its thread of control,    *)
(* the goroutine of line 1118 that runs waitForContainer and sends its     *)
(* result to waitResult (waitCh here, capacity 1), the container's process *)
(* and the timer of line 1126.  wcase is the path the function took, calls *)
(* the daemon calls it made, created the ID ContainerCreate returned.      *)
(***************************************************************************)
InitHealth ==
    /\ cfg = DefaultConfig
    /\ containers = <<>>
    /\ images \in {AllImages, AllImages \ {ImageIdOf(PrebuiltImage)}}
    /\ NewExecutor
    /\ WatchAt("create", "none")
    /\ networks = <<>> /\ scrub = NoScrub

\* a variant of HealthCreateStart in which the removal is deferred after the
\* start: a failed start returns with the container left behind (C30 must
\* fail on it)
HealthCreateStartDefersLate ==
    /\ wpc = "create"
    /\ \E o \in {"noimage", "create_err", "start_err", "ok"} :
        LET img == getPrebuiltImage(World("health"), o # "noimage")
            w == IF img.err # "" THEN img
                 ELSE ContainerCreate(img, <<"svc", "-wait-for-service">>, {},
                                      IF o = "create_err" THEN "err" ELSE "ok")
        IN  /\ images' = w.img /\ nextId' = w.nid /\ created' = w.cr
            /\ IF w.err # ""
               THEN /\ calls' = w.ev
                    /\ wcase' = o /\ wresult' = "error" /\ wpc' = "returned"
                    /\ UNCHANGED <<cont, waiter>>
               ELSE /\ calls' = ContainerStart(w, w.ret, o = "ok").ev
                    /\ IF o = "ok"
                       THEN /\ cont' = "running" /\ waiter' = "polling" /\ wpc' = "select"
                            /\ UNCHANGED <<wcase, wresult>>
                       ELSE /\ cont' = "created" /\ wcase' = o /\ wresult' = "error"
                            /\ wpc' = "returned"
                            /\ UNCHANGED waiter
    /\ UNCHANGED <<cfg, containers, execVars, ctlVars, last, faults, networks, scrub>>
    /\ UNCHANGED <<aborted, attachCh, waitCh, streams, retries, kills, abortedWaiting, waited>>

\* lines 1086-1120: getPrebuiltImage, ContainerCreate and ContainerStart; an
\* error of the first two is returned at once; after a create that succeeded
\* the removal is deferred, so a failed start goes through it; after the
\* start the goroutine runs waitForContainer
HealthCreateStart ==
    /\ wpc = "create"
    /\ \E o \in {"noimage", "create_err", "start_err", "ok"} :
        LET img == getPrebuiltImage(World("health"), o # "noimage")
            w == IF img.err # "" THEN img
                 ELSE ContainerCreate(img, <<"svc", "-wait-for-service">>, {},
                                      IF o = "create_err" THEN "err" ELSE "ok")
        IN  /\ images' = w.img /\ nextId' = w.nid /\ created' = w.cr
            /\ IF w.err # ""
               THEN /\ calls' = w.ev
                    /\ wcase' = o /\ wresult' = "error" /\ wpc' = "returned"
                    /\ UNCHANGED <<cont, waiter>>
               ELSE /\ calls' = ContainerStart(w, w.ret, o = "ok").ev
                    /\ IF o = "ok"
                       THEN /\ cont' = "running" /\ waiter' = "polling" /\ wpc' = "select"
                            /\ UNCHANGED <<wcase, wresult>>
                       ELSE /\ cont' = "created" /\ wcase' = o /\ wresult' = "error"
                            /\ wpc' = "deferred"
                            /\ UNCHANGED waiter
    /\ UNCHANGED <<cfg, containers, execVars, ctlVars, last, faults, networks, scrub>>
    /\ UNCHANGED <<aborted, attachCh, waitCh, streams, retries, kills, abortedWaiting, waited>>

\* lines 1123-1128: the select takes the waiter's result from waitResult, or
\* the timer fires; either way the function returns, through its deferred call
HealthSelect ==
    /\ wpc = "select"
    /\ \/ /\ waitCh # <<>>
          /\ waitCh' = Tail(waitCh)
          /\ wcase' = "wait"
          /\ wresult' = Head(waitCh)
       \/ /\ wcase' = "timeout"
          /\ wresult' = "timeout"
          /\ UNCHANGED waitCh
    /\ wpc' = "deferred"
    /\ UNCHANGED <<cont, aborted, attachCh, streams, waiter, retries, kills, abortedWaiting,
                   waited>>
    /\ WatchFrame

\* line 1111: the deferred s.removeContainer(resp.ID); its error is dropped,
\* and the function returns what it had
HealthDeferredRemove ==
    /\ wpc = "deferred"
    /\ \E ok \in BOOLEAN, id \in created :
        /\ calls' = removeContainer([World("health") EXCEPT !.ev = calls], ById(id), ok).ev
        /\ cont' = IF ok THEN "gone" ELSE cont
    /\ wpc' = "returned"
    /\ UNCHANGED <<cfg, daemonVars, execVars, ctlVars, created, last, faults, networks, scrub>>
    /\ UNCHANGED <<wcase, wresult, aborted, attachCh, waitCh, streams, waiter, retries, kills,
                   abortedWaiting, waited>>

NextHealth ==
    \/ HealthCreateStart
    \/ HealthSelect
    \/ HealthDeferredRemove
    \/ WaiterPolls
    \/ ContainerExits
    \/ ContainerVanishes

\* runServiceHealthCheckContainer under the scheduling of its thread and of
\* the waiter's goroutine: each takes its next step when it stays possible (a
\* sleep of one second ends, the timer fires).  The container's process and
\* the daemon's answers are under no obligation.
SpecHealth ==
    /\ InitHealth
    /\ [][NextHealth]_vars
    /\ WF_vars(HealthCreateStart)
    /\ WF_vars(HealthSelect)
    /\ WF_vars(HealthDeferredRemove)
    /\ WF_vars(WaiterPolls)

\* the removals issued for the health-check container
HealthRemovals ==
    {i \in 1..Len(calls) : calls[i].op = "remove" /\ calls[i].id \in created}

\* the part of C30 that holds from state to state: a created health-check
\* container is issued its removal before the function returns, on each
\* path, and the waiter's send finds waitResult empty
HealthRemovedBeforeReturn ==
    /\ [](wpc = "returned"
            => /\ wcase \in {"noimage", "create_err", "start_err", "wait", "timeout"}
               /\ created # {} => HealthRemovals # {}
               /\ created = {} => wcase \in {"noimage", "create_err"})
    /\ [](wcase = "wait" => wresult \in {"nil", "BuildError", "NotFound", "error"})
    /\ [](Len(waitCh) <= 1 /\ (waiter = "polling" => waitCh = <<>>))
    /\ [][waiter = "polling" /\ waiter' = "done" => Len(waitCh') = 1]_vars

\* the original reading of C30: after a timeout the waiter terminates,
\* whatever became of the container
C30_WaiterTerminatesAfterTimeout ==
    /\ HealthRemovedBeforeReturn
    /\ (wcase = "timeout" ~> waiter = "done")

\* C30: every health-check container that was created is issued a removal
\* before runServiceHealthCheckContainer returns, on the paths of a failed
\* start, of the waiter's result (clean or not) and of the timeout; the
\* waiter's send never blocks (waitResult is empty when it sends); and after
\* a timeout the waiter terminates once the container no longer runs (it was
\* removed, or it stopped), its result left on waitResult.
C30_RemovedAndWaiterEndsOnceStopped ==
    /\ HealthRemovedBeforeReturn
    /\ ((wcase = "timeout" /\ cont # "running") ~> (waiter = "done" /\ Len(waitCh) = 1))

\* the health check timed out, the removal was issued and took effect, and
\* the waiter ended on Not Found, its result left on waitResult
C30_Witness ==
    /\ wpc = "returned"
    /\ wcase = "timeout"
    /\ HealthRemovals # {}
    /\ cont = "gone"
    /\ waiter = "done"
    /\ waitCh = <<"NotFound">>

====
